---- MODULE Spec2Model ----
(***************************************************************************)
(* A model of src/src/http_parser/http_util.cc (bvc::HttpUtil).            *)
(*                                                                         *)
(* Strings are sequences of byte values (0..255).  A position inside a     *)
(* string is a 0-based offset, as an iterator minus begin() is in the      *)
(* source; the byte at offset i of s is s[i + 1], and the half-open range  *)
(* [b, e) of s is SubSeq(s, b + 1, e).                                     *)
(*                                                                         *)
(* Every component of the library is a pure function or a cursor over an   *)
(* immutable string, so every component has a specification of its own:    *)
(* its Init draws the inputs from bounded sets and its actions apply the   *)
(* function or advance the cursor.  The variables of the components a      *)
(* specification does not use stay at Idle.                                *)
(***************************************************************************)
EXTENDS Integers, Sequences, FiniteSets, TLC

VARIABLES
    asm,    \* a call of HttpUtil::AssembleRawHeaders
    hdr,    \* an HttpUtil::HeadersIterator
    nvp,    \* an HttpUtil::NameValuePairsIterator
    rng,    \* a call of HttpUtil::ParseRangeHeader
    crg,    \* a call of HttpUtil::ParseContentRangeHeaderFor206
    quo,    \* calls of HttpUtil::Quote and HttpUtil::Unquote
    unq,    \* a call of HttpUtil::Unquote and of HttpUtil::StrictUnquote
    loc,    \* calls of HttpUtil::LocateEndOfHeaders on a growing buffer
    cty,    \* a call of HttpUtil::ParseContentType
    aen,    \* a call of HttpUtil::ParseAcceptEncoding
    lng,    \* a call of HttpUtil::ExpandLanguageList or of
            \* HttpUtil::GenerateAcceptLanguageHeader
    cnv     \* AssembleRawHeaders, ConvertHeadersBackToHTTPResponse and back

vars == <<asm, hdr, nvp, rng, crg, quo, unq, loc, cty, aen, lng, cnv>>

Idle == [pc |-> "idle"]

(***************************************************************************)
(* Bytes the source names as character literals.                           *)
(***************************************************************************)
NUL == 0
HT == 9
LF == 10
CR == 13
SP == 32
DQUOTE == 34
STAR == 42
COMMA == 44
MINUS == 45
SLASH == 47
COLON == 58
SEMICOLON == 59
EQUALS == 61
BACKSLASH == 92
DEL == 127

\* Bytes that stand for ordinary content: a letter, and the digits.
LetterA == 65
LetterX == 120
Digit0 == 48
Digit9 == 57

\* All sequences over A of length at most n.
SeqsUpTo(A, n) == UNION {[1..k -> A] : k \in 0..n}

\* The bytes of s at offsets [b, e).
Sub(s, b, e) == SubSeq(s, b + 1, e)

\* The number of bytes of s equal to c.
Count(s, c) == Cardinality({i \in 1..Len(s) : s[i] = c})

\* HTTP_LWS is " \t".
IsLWS(c) == c \in {SP, HT}

ToLowerASCII(c) == IF c >= 65 /\ c <= 90 THEN c + 32 ELSE c

\* gurl_base::LowerCaseEqualsASCII(s, lit): lit is a lower-case literal.
LowerCaseEqualsASCII(s, lit) ==
    /\ Len(s) = Len(lit)
    /\ \A i \in 1..Len(s) : ToLowerASCII(s[i]) = lit[i]

RECURSIVE SkipLWSForward(_, _, _)
SkipLWSForward(s, b, e) ==
    IF b < e /\ IsLWS(s[b + 1]) THEN SkipLWSForward(s, b + 1, e) ELSE b

RECURSIVE SkipLWSBackward(_, _, _)
SkipLWSBackward(s, b, e) ==
    IF b < e /\ IsLWS(s[e]) THEN SkipLWSBackward(s, b, e - 1) ELSE e

\* TrimLWSImplementation(&begin, &end) on the range [b, e) of s.
TrimLWSImplementation(s, b, e) ==
    LET b2 == SkipLWSForward(s, b, e)
    IN  [begin |-> b2, end |-> SkipLWSBackward(s, b2, e)]

\* HttpUtil::TrimLWS(StringPiece): the trimmed string itself.
TrimLWS(s) ==
    LET t == TrimLWSImplementation(s, 0, Len(s)) IN Sub(s, t.begin, t.end)

IsTokenChar(c) ==
    ~(c >= DEL \/ c <= SP
      \/ c \in {40, 41, 60, 62, 64, COMMA, SEMICOLON, COLON, BACKSLASH,
                DQUOTE, SLASH, 91, 93, 63, EQUALS, 123, 125})

IsToken(s) == s # <<>> /\ \A i \in 1..Len(s) : IsTokenChar(s[i])

IsQuote(c) == c = DQUOTE

(***************************************************************************)
(* gurl_base::StringTokenizer without quote characters and without options *)
(* (QuickGetNext): a token is a maximal run of bytes that are no           *)
(* delimiters, and empty tokens are skipped.                               *)
(***************************************************************************)
RECURSIVE SkipDelims(_, _, _)
SkipDelims(s, i, delims) ==
    IF i < Len(s) /\ s[i + 1] \in delims
    THEN SkipDelims(s, i + 1, delims) ELSE i

RECURSIVE SkipToken(_, _, _)
SkipToken(s, i, delims) ==
    IF i < Len(s) /\ s[i + 1] \notin delims
    THEN SkipToken(s, i + 1, delims) ELSE i

\* GetNext() of a tokenizer over s whose token_end_ is token_end.
QuickGetNext(s, token_end, delims) ==
    LET b == SkipDelims(s, token_end, delims) IN
    IF b = Len(s)
    THEN [found |-> FALSE, token_begin |-> b, token_end |-> b]
    ELSE [found |-> TRUE, token_begin |-> b,
          token_end |-> SkipToken(s, b + 1, delims)]

(***************************************************************************)
(* The raw header assembler.                                               *)
(***************************************************************************)
npos == -1
slop == 4
http_len == 4
http == <<104, 116, 116, 112>>

Min(S) == CHOOSE x \in S : \A y \in S : x <= y

\* The offset of the first "http" within the first bytes of buf, or npos.
LocateStartOfStatusLine(buf) ==
    IF Len(buf) >= http_len
    THEN LET i_max == Min({Len(buf) - http_len, slop})
             hits == {i \in 0..i_max :
                        LowerCaseEqualsASCII(Sub(buf, i, i + http_len), http)}
         IN  IF hits = {} THEN npos ELSE Min(hits)
    ELSE npos

IsLineSegmentContinuable(line) ==
    IF line = <<>> THEN FALSE
    ELSE LET colons == {i \in 0..(Len(line) - 1) : line[i + 1] = COLON} IN
         IF colons = {} THEN FALSE
         ELSE LET name == Sub(line, 0, Min(colons)) IN
              IF name = <<>> THEN FALSE
              ELSE IF IsLWS(name[1]) THEN FALSE
              ELSE TRUE

\* str.find_first_of("\r\n"), or str.size().
FindStatusLineEnd(str) ==
    LET ends == {i \in 0..(Len(str) - 1) : str[i + 1] \in {CR, LF}} IN
    IF ends = {} THEN Len(str) ELSE Min(ends)

\* Despite its name: str without its leading run of LWS.
RemoveLeadingNonLWS(str) ==
    LET keep == {i \in 0..(Len(str) - 1) : ~IsLWS(str[i + 1])} IN
    IF keep = {} THEN <<>> ELSE Sub(str, Min(keep), Len(str))

Erase(s, c) == SelectSeq(s, LAMBDA x : x # c)

Replace(s, a, b) == [i \in 1..Len(s) |-> IF s[i] = a THEN b ELSE s[i]]

\* The line loop of AssembleRawHeaders over input from offset pos on.  Its
\* result holds raw_headers and, in started, the number of passes that
\* terminated the previous line and began a new one.
RECURSIVE AssembleLines(_, _, _, _, _)
AssembleLines(input, pos, raw_headers, prev_line_continuable, started) ==
    LET t == QuickGetNext(input, pos, {CR, LF}) IN
    IF ~t.found
    THEN [raw_headers |-> raw_headers, started |-> started]
    ELSE LET line == Sub(input, t.token_begin, t.token_end) IN
         IF prev_line_continuable /\ IsLWS(line[1])
         THEN AssembleLines(input, t.token_end,
                            raw_headers \o <<SP>> \o RemoveLeadingNonLWS(line),
                            prev_line_continuable, started)
         ELSE AssembleLines(input, t.token_end,
                            raw_headers \o <<LF>> \o line,
                            IsLineSegmentContinuable(line), started + 1)

\* A terminator of one line break only.
TerminateOnce(raw_headers) == raw_headers \o <<LF>>

\* raw_headers.append("\n\n", 2)
Terminate(raw_headers) == raw_headers \o <<LF, LF>>

\* The substitution without the erasure before it.
SanitizeNoErase(raw_headers) == Replace(raw_headers, LF, NUL)

\* Erase(raw_headers, '\0'), then replace every '\n' by '\0'.
Sanitize(raw_headers) == Replace(Erase(raw_headers, NUL), LF, NUL)

\* The call's record: the result in out, and the locals the claims speak
\* of: input after the slop and the status line were removed (rest),
\* raw_headers before the NULs are erased, and the number of logical lines
\* (the status line and every line the loop started).
AssembleRawHeaders(input0) ==
    LET status_begin_offset == LocateStartOfStatusLine(input0)
        input1 == IF status_begin_offset # npos
                  THEN Sub(input0, status_begin_offset, Len(input0))
                  ELSE input0
        status_line_end == FindStatusLineEnd(input1)
        rest == Sub(input1, status_line_end, Len(input1))
        loop == AssembleLines(rest, 0, Sub(input1, 0, status_line_end),
                              FALSE, 0)
        raw_headers == Terminate(loop.raw_headers)
    IN  [out |-> Sanitize(raw_headers), raw_headers |-> raw_headers,
         rest |-> rest, lines |-> loop.started + 1,
         status_begin_offset |-> status_begin_offset]

\* Bounds and inputs of the assembler's specification: an optional byte of
\* slop and an optional "http" before a body over AsmAlphabet.
MaxAsmBody == 5
AsmAlphabet == {NUL, LF, CR, SP, COLON, LetterA}
AsmPrefixes == {<<>>, <<72, 116, 84, 112>>, <<LetterA>> \o http}

InitAssemble ==
    /\ asm \in {[pc |-> "start", input |-> p \o b, out |-> <<>>,
                 raw_headers |-> <<>>, rest |-> <<>>, lines |-> 0,
                 status_begin_offset |-> npos] :
                p \in AsmPrefixes, b \in SeqsUpTo(AsmAlphabet, MaxAsmBody)}
    /\ hdr = Idle /\ nvp = Idle /\ rng = Idle /\ crg = Idle /\ quo = Idle
    /\ unq = Idle /\ loc = Idle /\ cty = Idle /\ aen = Idle /\ lng = Idle /\ cnv = Idle

AssembleCall ==
    /\ asm.pc = "start"
    /\ asm' = [pc |-> "done", input |-> asm.input]
                @@ AssembleRawHeaders(asm.input)
    /\ UNCHANGED <<hdr, nvp, rng, crg, quo,
                 unq, loc, cty, aen, lng, cnv>>

NextAssemble == AssembleCall

SpecAssemble == InitAssemble /\ [][NextAssemble]_vars

\* The segments of the input after the status line, as the loop sees them.
RECURSIVE Segments(_, _)
Segments(s, pos) ==
    LET t == QuickGetNext(s, pos, {CR, LF}) IN
    IF ~t.found THEN <<>>
    ELSE <<Sub(s, t.token_begin, t.token_end)>> \o Segments(s, t.token_end)

AllNul(s) == \A i \in 1..Len(s) : s[i] = NUL

\* The last segment after the status line exists and holds NUL bytes only.
LastSegmentAllNul(rest) ==
    LET segs == Segments(rest, 0) IN
    segs # <<>> /\ AllNul(segs[Len(segs)])

EndsWithTwoNul(out) ==
    Len(out) >= 2 /\ out[Len(out)] = NUL /\ out[Len(out) - 1] = NUL

\* C1 as stated: the output ends with exactly two NUL bytes, for every input.
C1_ExactlyTwoNul ==
    asm.pc = "done" =>
        /\ EndsWithTwoNul(asm.out)
        /\ Len(asm.out) > 2 => asm.out[Len(asm.out) - 2] # NUL

\* C1 as amended: the output ends with two NUL bytes, and the byte before
\* them is NUL exactly when the last segment after the status line holds NUL
\* bytes only: that segment becomes an empty line of the output.
C1_TwoNulUnlessNulSegment ==
    asm.pc = "done" =>
        /\ EndsWithTwoNul(asm.out)
        /\ Len(asm.out) > 2 =>
              (asm.out[Len(asm.out) - 2] = NUL <=> LastSegmentAllNul(asm.rest))

\* C1's case: an input whose last segment is all NUL has been assembled, and
\* one without, after a header line.
C1_Witness ==
    /\ asm.pc = "done"
    /\ Len(asm.out) > 2
    /\ LastSegmentAllNul(asm.rest)
    /\ asm.out[Len(asm.out) - 2] = NUL

Find(s, b, e, c) ==
    LET at == {i \in b..(e - 1) : s[i + 1] = c} IN
    IF at = {} THEN e ELSE Min(at)

\* A test that lets a name of LWS only through.
NameIsEmpty(s, name_begin, name_end) == name_begin = name_end

\* name_begin_ == name_end_ || IsLWS(*name_begin_)
NameIsEmptyOrStartsWithLWS(s, name_begin, name_end) ==
    name_begin = name_end \/ IsLWS(s[name_begin + 1])

\* GetNext() on the iterator it.  lines_ is the tokenizer (headers,
\* token_end, delims); ret is the value returned; dcheck records whether
\* QUICHE_DCHECK(name_begin_ < name_end_) has held every time it was reached.
RECURSIVE HeadersIteratorGetNext(_)
HeadersIteratorGetNext(it) ==
    LET s == it.headers
        t == QuickGetNext(s, it.token_end, it.delims)
    IN
    IF ~t.found
    THEN [it EXCEPT !.token_end = t.token_end, !.ret = FALSE]
    ELSE
      LET colon == Find(s, t.token_begin, t.token_end, COLON)
          it1 == [it EXCEPT !.token_end = t.token_end,
                            !.name_begin_ = t.token_begin,
                            !.values_end_ = t.token_end]
      IN
      IF colon = t.token_end
      THEN HeadersIteratorGetNext(it1)
      ELSE
        LET it2 == [it1 EXCEPT !.name_end_ = colon] IN
        IF NameIsEmptyOrStartsWithLWS(s, it2.name_begin_, it2.name_end_)
        THEN HeadersIteratorGetNext(it2)
        ELSE
          LET n == TrimLWSImplementation(s, it2.name_begin_, it2.name_end_)
              it3 == [it2 EXCEPT !.name_begin_ = n.begin,
                                 !.name_end_ = n.end,
                                 !.dcheck = it2.dcheck /\ n.begin < n.end]
          IN
          IF ~IsToken(Sub(s, n.begin, n.end))
          THEN HeadersIteratorGetNext(it3)
          ELSE
            LET v == TrimLWSImplementation(s, colon + 1, it3.values_end_)
            IN  [it3 EXCEPT !.values_begin_ = v.begin,
                            !.values_end_ = v.end,
                            !.ret = TRUE]

\* Bounds and inputs of the iterator's specification.
MaxHdrLen == 7
MaxHdrCalls == 4
HdrAlphabet == {NUL, COLON, SP, LetterA}

\* After construction only lines_ is set; the four positions are read only
\* after a GetNext() that returned true.
InitHeaders ==
    /\ hdr \in {[pc |-> "iter", headers |-> s, delims |-> {NUL},
                 token_end |-> 0,
                 name_begin_ |-> 0, name_end_ |-> 0,
                 values_begin_ |-> 0, values_end_ |-> 0,
                 ret |-> TRUE, dcheck |-> TRUE,
                 calls |-> 0, yielded |-> <<>>, exhausted |-> FALSE] :
                s \in SeqsUpTo(HdrAlphabet, MaxHdrLen)}
    /\ asm = Idle /\ nvp = Idle /\ rng = Idle /\ crg = Idle /\ quo = Idle
    /\ unq = Idle /\ loc = Idle /\ cty = Idle /\ aen = Idle /\ lng = Idle /\ cnv = Idle

\* One call of GetNext().  calls, yielded and exhausted are the history of
\* the calls: their number, the pairs they yielded, and whether one of them
\* returned false.
HeadersGetNextCall ==
    /\ hdr.pc = "iter"
    /\ hdr.calls < MaxHdrCalls
    /\ LET it == HeadersIteratorGetNext(hdr) IN
       hdr' = [it EXCEPT
                 !.calls = hdr.calls + 1,
                 !.exhausted = hdr.exhausted \/ ~it.ret,
                 !.yielded =
                     IF it.ret
                     THEN Append(hdr.yielded,
                                 <<Sub(it.headers, it.name_begin_, it.name_end_),
                                   Sub(it.headers, it.values_begin_,
                                       it.values_end_)>>)
                     ELSE hdr.yielded]
    /\ UNCHANGED <<asm, nvp, rng, crg, quo,
                 unq, loc, cty, aen, lng, cnv>>

NextHeaders == HeadersGetNextCall

SpecHeaders == InitHeaders /\ [][NextHeaders]_vars

\* The non-empty lines of s between delimiters, in order.
RECURSIVE LinesOf(_, _, _)
LinesOf(s, pos, delims) ==
    LET t == QuickGetNext(s, pos, delims) IN
    IF ~t.found THEN <<>>
    ELSE <<Sub(s, t.token_begin, t.token_end)>>
           \o LinesOf(s, t.token_end, delims)

HasColon(line) == \E i \in 1..Len(line) : line[i] = COLON

NamePart(line) == Sub(line, 0, Find(line, 0, Len(line), COLON))

ValuePart(line) == Sub(line, Find(line, 0, Len(line), COLON) + 1, Len(line))

\* The lines C3 says are yielded.
IsHeaderLine(line) ==
    /\ HasColon(line)
    /\ NamePart(line) # <<>>
    /\ ~IsLWS(NamePart(line)[1])
    /\ IsToken(TrimLWS(NamePart(line)))

RECURSIVE PairsOf(_)
PairsOf(lines) ==
    IF lines = <<>> THEN <<>>
    ELSE (IF IsHeaderLine(Head(lines))
          THEN <<<<TrimLWS(NamePart(Head(lines))),
                   TrimLWS(ValuePart(Head(lines)))>>>>
          ELSE <<>>)
         \o PairsOf(Tail(lines))

ExpectedHeaders(s, delims) == PairsOf(LinesOf(s, 0, delims))

\* C3: the calls of GetNext() yield, in input order, exactly the lines with
\* a ':' whose name part is non-empty, does not start with LWS and is a
\* token once trimmed, as (trimmed name, trimmed text after the first ':');
\* the yielded name is never empty and the assertion on it never fails; once
\* a call has returned false every later call returns false, and by then
\* every such line has been yielded.
C3_HeadersYielded ==
    hdr.pc = "iter" =>
      LET want == ExpectedHeaders(hdr.headers, hdr.delims)
          n == Len(hdr.yielded)
      IN
      /\ n <= Len(want)
      /\ hdr.yielded = SubSeq(want, 1, n)
      /\ hdr.dcheck
      /\ \A k \in 1..n : hdr.yielded[k][1] # <<>>
      /\ (hdr.calls > 0 /\ hdr.ret) => hdr.name_begin_ < hdr.name_end_
      /\ hdr.exhausted => (~hdr.ret /\ hdr.yielded = want)
      /\ (hdr.calls > 0 /\ ~hdr.exhausted) => n = hdr.calls

\* C3's case: two header lines were yielded around a skipped line, one with
\* an empty value, and a call after the end returned false again.
C3_Witness ==
    /\ hdr.pc = "iter"
    /\ Len(hdr.yielded) = 2
    /\ LET lines == LinesOf(hdr.headers, 0, hdr.delims) IN
       /\ Len(lines) = 3
       /\ IsHeaderLine(lines[1])
       /\ ~IsHeaderLine(lines[2])
       /\ IsHeaderLine(lines[3])
    /\ hdr.exhausted
    /\ hdr.calls = 4

(***************************************************************************)
(* The quoting codec.                                                      *)
(***************************************************************************)

\* The unescape loop of UnquoteImpl over str[i..], with prev_escape = esc and
\* the bytes unescaped so far in acc.  Its result is the record
\* [ok, out]: ok is false where the source returns false.
RECURSIVE UnescapeLoop(_, _, _, _, _)
UnescapeLoop(str, i, esc, acc, strict_quotes) ==
    IF i > Len(str)
    THEN IF strict_quotes /\ esc
         THEN [ok |-> FALSE, out |-> <<>>]
         ELSE [ok |-> TRUE, out |-> acc]
    ELSE LET c == str[i] IN
         IF c = BACKSLASH /\ ~esc
         THEN UnescapeLoop(str, i + 1, TRUE, acc, strict_quotes)
         ELSE IF strict_quotes /\ ~esc /\ IsQuote(c)
              THEN [ok |-> FALSE, out |-> <<>>]
              ELSE UnescapeLoop(str, i + 1, FALSE, Append(acc, c),
                                strict_quotes)

UnquoteImpl(str, strict_quotes) ==
    IF str = <<>> THEN [ok |-> FALSE, out |-> <<>>]
    ELSE IF ~IsQuote(str[1]) THEN [ok |-> FALSE, out |-> <<>>]
    ELSE IF Len(str) < 2 \/ str[1] # str[Len(str)]
         THEN [ok |-> FALSE, out |-> <<>>]
    ELSE UnescapeLoop(Sub(str, 1, Len(str) - 1), 1, FALSE, <<>>,
                      strict_quotes)

Unquote(str) ==
    LET r == UnquoteImpl(str, FALSE) IN IF r.ok THEN r.out ELSE str

\* StrictUnquote(str, out): [ok, out]; out is assigned only when ok.
StrictUnquote(str) == UnquoteImpl(str, TRUE)

RECURSIVE EscapeLoop(_, _, _)
EscapeLoop(str, i, acc) ==
    IF i > Len(str) THEN acc
    ELSE LET c == str[i] IN
         EscapeLoop(str, i + 1,
                    IF c = DQUOTE \/ c = BACKSLASH
                    THEN acc \o <<BACKSLASH, c>>
                    ELSE Append(acc, c))

\* A Quote that escapes quotation marks only.
RECURSIVE EscapeQuotesOnly(_, _, _)
EscapeQuotesOnly(str, i, acc) ==
    IF i > Len(str) THEN acc
    ELSE LET c == str[i] IN
         EscapeQuotesOnly(str, i + 1,
                          IF c = DQUOTE
                          THEN acc \o <<BACKSLASH, c>>
                          ELSE Append(acc, c))

QuoteNoBackslashEscape(str) ==
    <<DQUOTE>> \o EscapeQuotesOnly(str, 1, <<>>) \o <<DQUOTE>>

Quote(str) == <<DQUOTE>> \o EscapeLoop(str, 1, <<>>) \o <<DQUOTE>>

(***************************************************************************)
(* gurl_base::StringTokenizer with quote characters (FullGetNext), as      *)
(* ValuesIterator sets it up: a delimiter inside a quoted span is no split *)
(* point, and a backslash inside a quoted span escapes the next byte.      *)
(***************************************************************************)
AdvanceStateInit == [in_quote |-> FALSE, in_escape |-> FALSE,
                     quote_char |-> NUL]

\* AdvanceOne(&state, c): [more, state]; more is false at a delimiter.
AdvanceOne(state, c, delims, quotes) ==
    IF state.in_quote
    THEN [more |-> TRUE,
          state |-> IF state.in_escape
                    THEN [state EXCEPT !.in_escape = FALSE]
                    ELSE IF c = BACKSLASH
                         THEN [state EXCEPT !.in_escape = TRUE]
                         ELSE IF c = state.quote_char
                              THEN [state EXCEPT !.in_quote = FALSE]
                              ELSE state]
    ELSE IF c \in delims
         THEN [more |-> FALSE, state |-> state]
         ELSE [more |-> TRUE,
               state |-> [state EXCEPT !.in_quote = c \in quotes,
                                       !.quote_char = c]]

\* while (token_end_ != end_ && AdvanceOne(&state, *token_end_)) ++token_end_
RECURSIVE Slurp(_, _, _, _, _)
Slurp(s, i, state, delims, quotes) ==
    IF i = Len(s) THEN [pos |-> i, state |-> state]
    ELSE LET a == AdvanceOne(state, s[i + 1], delims, quotes) IN
         IF a.more THEN Slurp(s, i + 1, a.state, delims, quotes)
         ELSE [pos |-> i, state |-> state]

\* FullGetNext() without RETURN_DELIMS.  tk is the tokenizer's position
\* [token_begin, token_end, token_is_delim]; state is the AdvanceState of
\* this call.
RECURSIVE FullGetNext(_, _, _, _, _, _)
FullGetNext(s, tk, state, delims, quotes, return_empty_tokens) ==
    LET slurped == IF tk.token_is_delim
                   THEN Slurp(s, tk.token_end, state, delims, quotes)
                   ELSE [pos |-> tk.token_end, state |-> state]
        tk1 == IF tk.token_is_delim
               THEN [token_begin |-> tk.token_end, token_end |-> slurped.pos,
                     token_is_delim |-> FALSE]
               ELSE tk
    IN
    IF tk.token_is_delim
       /\ (tk1.token_begin # tk1.token_end \/ return_empty_tokens)
    THEN [found |-> TRUE, tk |-> tk1]
    ELSE IF tk1.token_end = Len(s)
         THEN [found |-> FALSE, tk |-> tk1]
         ELSE FullGetNext(s,
                          [token_begin |-> tk1.token_end,
                           token_end |-> tk1.token_end + 1,
                           token_is_delim |-> TRUE],
                          slurped.state, delims, quotes, return_empty_tokens)

(***************************************************************************)
(* ValuesIterator.                                                         *)
(***************************************************************************)

\* ValuesIterator(values_begin, values_end, delimiter, ignore_empty_values)
\* over str from offset values_begin to its end.
ValuesIterator(str, values_begin, delimiter, ignore_empty_values) ==
    [str |-> str, delims |-> {delimiter}, quotes |-> {DQUOTE},
     ignore_empty_values_ |-> ignore_empty_values,
     tk |-> [token_begin |-> values_begin, token_end |-> values_begin,
             token_is_delim |-> TRUE],
     value_begin_ |-> 0, value_end_ |-> 0, found |-> FALSE]

\* GetNext(): found is the value returned.
RECURSIVE ValuesIteratorGetNext(_)
ValuesIteratorGetNext(vi) ==
    LET r == FullGetNext(vi.str, vi.tk, AdvanceStateInit, vi.delims,
                         vi.quotes, ~vi.ignore_empty_values_)
    IN
    IF ~r.found THEN [vi EXCEPT !.tk = r.tk, !.found = FALSE]
    ELSE LET t == TrimLWSImplementation(vi.str, r.tk.token_begin,
                                        r.tk.token_end)
             vi1 == [vi EXCEPT !.tk = r.tk, !.value_begin_ = t.begin,
                               !.value_end_ = t.end]
         IN  IF ~vi.ignore_empty_values_ \/ t.begin # t.end
             THEN [vi1 EXCEPT !.found = TRUE]
             ELSE ValuesIteratorGetNext(vi1)

(***************************************************************************)
(* NameValuePairsIterator.                                                 *)
(***************************************************************************)

\* An assignment that restores the flag when a pair parses.
ValidAfterSuccessReset(valid) == TRUE

\* valid_ after a GetNext() that found a well-formed pair: left as it was.
ValidAfterSuccess(valid) == valid

\* The rest of GetNext() once the property is split at equals: it holds the
\* positions as set before the first test, n and v are the trimmed name and
\* value ranges.
NameValuePairsValue(it, equals, n, v) ==
    LET s == it.props_.str
        it1 == [it EXCEPT !.name_begin_ = n.begin, !.name_end_ = n.end,
                          !.value_begin_ = v.begin, !.value_end_ = v.end,
                          !.value_is_quoted_ = FALSE,
                          !.unquoted_value_ = <<>>]
    IN
    IF equals # it.value_end_ /\ v.begin = v.end
    THEN [it1 EXCEPT !.valid_ = FALSE, !.ret = FALSE]
    ELSE IF v.begin # v.end /\ IsQuote(s[v.begin + 1])
    THEN
      IF it.strict_quotes_
      THEN IF ~StrictUnquote(Sub(s, v.begin, v.end)).ok
           THEN [it1 EXCEPT !.value_is_quoted_ = TRUE,
                            !.valid_ = FALSE, !.ret = FALSE]
           ELSE [it1 EXCEPT !.value_is_quoted_ = TRUE,
                            !.unquoted_value_ =
                                StrictUnquote(Sub(s, v.begin, v.end)).out,
                            !.valid_ = ValidAfterSuccess(it.valid_),
                            !.ret = TRUE]
      ELSE IF s[v.begin + 1] # s[v.end] \/ v.begin + 1 = v.end
           THEN [it1 EXCEPT !.value_is_quoted_ = FALSE,
                            !.value_begin_ = v.begin + 1,
                            !.valid_ = ValidAfterSuccess(it.valid_),
                            !.ret = TRUE]
           ELSE [it1 EXCEPT !.value_is_quoted_ = TRUE,
                            !.unquoted_value_ =
                                Unquote(Sub(s, v.begin, v.end)),
                            !.valid_ = ValidAfterSuccess(it.valid_),
                            !.ret = TRUE]
    ELSE [it1 EXCEPT !.valid_ = ValidAfterSuccess(it.valid_), !.ret = TRUE]

\* The scan for the equals sign and the tests on it: it holds the property
\* as [value_begin_, value_end_) and name_begin_ = name_end_ = value_end_;
\* equals is the offset std::find returned.
NameValuePairsSplit(it, equals) ==
    LET s == it.props_.str
        value_begin == it.value_begin_
        value_end == it.value_end_
    IN
    IF equals = value_begin
    THEN [it EXCEPT !.valid_ = FALSE, !.ret = FALSE]
    ELSE IF equals = value_end /\ ~it.values_optional_
    THEN [it EXCEPT !.valid_ = FALSE, !.ret = FALSE]
    ELSE IF equals # value_end
            /\ \E i \in value_begin..(equals - 1) : IsQuote(s[i + 1])
    THEN [it EXCEPT !.valid_ = FALSE, !.ret = FALSE]
    ELSE NameValuePairsValue(
             it, equals,
             TrimLWSImplementation(s, value_begin, equals),
             TrimLWSImplementation(
                 s, IF equals = value_end THEN value_end ELSE equals + 1,
                 value_end))

\* GetNext() after props_.GetNext() left the values iterator as props.
NameValuePairsProperty(it, props) ==
    IF ~props.found
    THEN [it EXCEPT !.props_ = props, !.ret = FALSE]
    ELSE NameValuePairsSplit(
             [it EXCEPT !.props_ = props,
                        !.value_begin_ = props.value_begin_,
                        !.value_end_ = props.value_end_,
                        !.name_begin_ = props.value_end_,
                        !.name_end_ = props.value_end_],
             Find(props.str, props.value_begin_, props.value_end_, EQUALS))

\* GetNext() on the iterator it; ret is the value returned.
NameValuePairsIteratorGetNext(it) ==
    NameValuePairsProperty(it, ValuesIteratorGetNext(it.props_))

\* Bounds and inputs of the iterator's specification.
MaxNvpLen == 4
MaxNvpCalls == 4
NvpAlphabet == {SEMICOLON, EQUALS, DQUOTE, BACKSLASH, LetterA, SP}

\* NameValuePairsIterator(begin, end, delimiter, optional_values,
\* strict_quotes): the four positions start at end.
InitNameValuePairs ==
    /\ nvp \in {[pc |-> "iter",
                 props_ |-> ValuesIterator(s, 0, SEMICOLON, TRUE),
                 valid_ |-> TRUE,
                 name_begin_ |-> Len(s), name_end_ |-> Len(s),
                 value_begin_ |-> Len(s), value_end_ |-> Len(s),
                 value_is_quoted_ |-> FALSE, unquoted_value_ |-> <<>>,
                 values_optional_ |-> o, strict_quotes_ |-> q,
                 ret |-> TRUE, calls |-> 0] :
                s \in SeqsUpTo(NvpAlphabet, MaxNvpLen),
                o \in BOOLEAN, q \in BOOLEAN}
    /\ asm = Idle /\ hdr = Idle /\ rng = Idle /\ crg = Idle /\ quo = Idle
    /\ unq = Idle /\ loc = Idle /\ cty = Idle /\ aen = Idle /\ lng = Idle /\ cnv = Idle

\* One call of GetNext(); calls counts the calls made.
NameValuePairsGetNextCall ==
    /\ nvp.pc = "iter"
    /\ nvp.calls < MaxNvpCalls
    /\ nvp' = [NameValuePairsIteratorGetNext(nvp) EXCEPT
                 !.calls = nvp.calls + 1]
    /\ UNCHANGED <<asm, hdr, rng, crg, quo,
                 unq, loc, cty, aen, lng, cnv>>

NextNameValuePairs == NameValuePairsGetNextCall

SpecNameValuePairs == InitNameValuePairs /\ [][NextNameValuePairs]_vars

\* What the next call of GetNext() meets: "exhausted" when no property is
\* left, "malformed" when the next property has no name before '=', has no
\* '=' though values are required, has a quotation mark before the '=', has
\* an empty value after the '=', or has a quoted value that StrictUnquote
\* rejects in strict mode; "pair" otherwise.
NextProperty(it) ==
    LET props == ValuesIteratorGetNext(it.props_) IN
    IF ~props.found THEN "exhausted"
    ELSE
      LET p == Sub(it.props_.str, props.value_begin_, props.value_end_)
          eq == Find(p, 0, Len(p), EQUALS)
          value == TrimLWS(Sub(p, eq + 1, Len(p)))
      IN
      IF \/ eq = 0
         \/ (eq = Len(p) /\ ~it.values_optional_)
         \/ (eq < Len(p) /\ \E i \in 1..eq : p[i] = DQUOTE)
         \/ (eq < Len(p) /\ value = <<>>)
         \/ (eq < Len(p) /\ value # <<>> /\ value[1] = DQUOTE
               /\ it.strict_quotes_ /\ ~StrictUnquote(value).ok)
      THEN "malformed"
      ELSE "pair"

\* C4 as stated: once a call has failed on malformed input (valid_ is false
\* from then on), every call returns false.
C4_FailureIsPermanent ==
    (nvp.pc = "iter" /\ ~nvp.valid_) => ~nvp.ret

\* C5: valid_ is true at construction; a call that meets a malformed
\* property sets it to false; no call sets it back to true; a call that
\* finds the input exhausted, or a well-formed pair, leaves it as it was.
C5_ValidOnlyFalls ==
    /\ (nvp.pc = "iter" /\ nvp.calls = 0) => nvp.valid_
    /\ [][(nvp.pc = "iter" /\ nvp'.calls = nvp.calls + 1) =>
            /\ nvp'.valid_ => nvp.valid_
            /\ NextProperty(nvp) = "malformed" => (~nvp'.valid_ /\ ~nvp'.ret)
            /\ NextProperty(nvp) = "exhausted" =>
                  (nvp'.valid_ = nvp.valid_ /\ ~nvp'.ret)
            /\ NextProperty(nvp) = "pair" =>
                  (nvp'.valid_ = nvp.valid_ /\ nvp'.ret)]_vars

\* C5's case: after the call that cleared valid_, a call found a well-formed
\* pair and another found the input exhausted, and valid_ is still false.
C5_Witness ==
    /\ nvp.pc = "iter"
    /\ ~nvp.valid_
    /\ nvp.calls >= 3
    /\ ~nvp.ret
    /\ nvp.name_begin_ < nvp.name_end_
    /\ NextProperty(nvp) = "exhausted"

(***************************************************************************)
(* Numbers.  A StringPiece built from a const char* (as the .data() of     *)
(* another piece is) runs from that byte to the first NUL: the terminator  *)
(* of the std::string the bytes live in, or a NUL byte inside it.          *)
(***************************************************************************)

\* The C string that starts at offset p of the string s.
CStr(s, p) ==
    LET nuls == {i \in p..(Len(s) - 1) : s[i + 1] = NUL} IN
    Sub(s, p, IF nuls = {} THEN Len(s) ELSE Min(nuls))

IsAsciiDigit(c) == c >= Digit0 /\ c <= Digit9

\* absl::ascii_isspace
IsAsciiSpace(c) == c \in {SP, HT, LF, 11, 12, CR}

RECURSIVE DigitsValue(_)
DigitsValue(ds) ==
    IF ds = <<>> THEN 0
    ELSE 10 * DigitsValue(SubSeq(ds, 1, Len(ds) - 1)) + (ds[Len(ds)] - Digit0)

\* absl::SimpleAtoi(text, &out): [ok, value].  White space around the number
\* is skipped, one sign is accepted, and every byte left must be a digit.
\* (The inputs of this model are too short to overflow 64 bits.)
SimpleAtoi(text) ==
    LET lead == {i \in 0..(Len(text) - 1) : ~IsAsciiSpace(text[i + 1])}
        b == IF lead = {} THEN Len(text) ELSE Min(lead)
        e == IF lead = {} THEN Len(text)
             ELSE 1 + CHOOSE i \in lead : \A j \in lead : j <= i
        signed == b < e /\ text[b + 1] \in {MINUS, 43}
        negative == b < e /\ text[b + 1] = MINUS
        ds == Sub(text, IF signed THEN b + 1 ELSE b, e)
    IN  IF ds = <<>> \/ \E i \in 1..Len(ds) : ~IsAsciiDigit(ds[i])
        THEN [ok |-> FALSE, value |-> 0]
        ELSE [ok |-> TRUE,
              value |-> IF negative THEN 0 - DigitsValue(ds)
                        ELSE DigitsValue(ds)]

\* HttpUtil::StringToInt64(in, out) calls absl::SimpleAtoi(in.data(), out):
\* the C string at the piece's first byte, whatever the piece's length.
\* The piece is given as the string s it points into and its offset p.
StringToInt64(s, p) == SimpleAtoi(CStr(s, p))

(***************************************************************************)
(* HttpByteRange: three positions, -1 where not specified.                 *)
(***************************************************************************)
kPositionNotSpecified == -1

HttpByteRange ==
    [first_byte_position |-> kPositionNotSpecified,
     last_byte_position |-> kPositionNotSpecified,
     suffix_length |-> kPositionNotSpecified]

HasFirstBytePosition(range) ==
    range.first_byte_position # kPositionNotSpecified

IsValid(range) ==
    IF range.suffix_length > 0 THEN TRUE
    ELSE /\ range.first_byte_position >= 0
         /\ (range.last_byte_position = kPositionNotSpecified
             \/ range.last_byte_position >= range.first_byte_position)

(***************************************************************************)
(* ParseRangeHeader.                                                       *)
(***************************************************************************)
bytes == <<98, 121, 116, 101, 115>>

\* A result that does not look at the vector.
RangesResultAlwaysTrue(ranges) == TRUE

\* return !ranges->empty();
RangesResult(ranges) == ranges # <<>>

\* The HttpByteRange of one value: first_byte_pos and last_byte_pos are the
\* trimmed ranges on the two sides of the '-', first and last what
\* StringToInt64 made of them.  [ok, range]; ok is false where the loop
\* returns false.
ByteRangeOf(first_byte_pos, last_byte_pos, first, last) ==
    LET has_first == first_byte_pos.begin # first_byte_pos.end
        has_last == last_byte_pos.begin # last_byte_pos.end
        range1 == IF has_first
                  THEN [HttpByteRange EXCEPT
                          !.first_byte_position = first.value]
                  ELSE HttpByteRange
        range2 == IF ~has_last THEN range1
                  ELSE IF has_first
                       THEN [range1 EXCEPT !.last_byte_position = last.value]
                       ELSE [range1 EXCEPT !.suffix_length = last.value]
    IN
    IF has_first /\ ~first.ok THEN [ok |-> FALSE, range |-> range1]
    ELSE IF has_last /\ ~last.ok THEN [ok |-> FALSE, range |-> range1]
    ELSE IF ~has_last /\ ~HasFirstBytePosition(range1)
    THEN [ok |-> FALSE, range |-> range1]
    ELSE [ok |-> IsValid(range2), range |-> range2]

\* One value [value_begin, value_end) of the byte-range-set.  Both numbers
\* are read from first_byte_pos.data(), the C string that starts at the
\* first byte of the trimmed first_byte_pos.
ParseByteRange(s, value_begin, value_end, minus_char_offset) ==
    IF minus_char_offset = value_end
    THEN [ok |-> FALSE, range |-> HttpByteRange]
    ELSE ByteRangeOf(
             TrimLWSImplementation(s, value_begin, minus_char_offset),
             TrimLWSImplementation(s, minus_char_offset + 1, value_end),
             StringToInt64(
                 s, TrimLWSImplementation(s, value_begin,
                                          minus_char_offset).begin),
             StringToInt64(
                 s, TrimLWSImplementation(s, value_begin,
                                          minus_char_offset).begin))

\* The loop over the byte-range-set: [ret, ranges].
RECURSIVE ParseRangeLoop(_, _, _)

\* The end of the loop body: a failed range returns false, a range that
\* passed is pushed and the loop goes on.
ParseRangePush(s, it, ranges, r) ==
    IF ~r.ok THEN [ret |-> FALSE, ranges |-> ranges]
    ELSE ParseRangeLoop(s, it, Append(ranges, r.range))

\* The loop after byte_range_set_iterator.GetNext() left the iterator as it.
ParseRangeBody(s, it, ranges) ==
    IF ~it.found THEN [ret |-> RangesResult(ranges), ranges |-> ranges]
    ELSE ParseRangePush(
             s, it, ranges,
             ParseByteRange(s, it.value_begin_, it.value_end_,
                            Find(s, it.value_begin_, it.value_end_, MINUS)))

ParseRangeLoop(s, byte_range_set_iterator, ranges) ==
    ParseRangeBody(s, ValuesIteratorGetNext(byte_range_set_iterator), ranges)

\* ParseRangeHeader(ranges_specifier, ranges): [ret, ranges], ranges being
\* the vector after the call.
ParseRangeHeader(ranges_specifier, ranges) ==
    LET s == ranges_specifier
        equal_char_offset == Find(s, 0, Len(s), EQUALS)
    IN
    IF equal_char_offset = Len(s) THEN [ret |-> FALSE, ranges |-> ranges]
    ELSE IF ~LowerCaseEqualsASCII(TrimLWS(Sub(s, 0, equal_char_offset)),
                                  bytes)
    THEN [ret |-> FALSE, ranges |-> ranges]
    ELSE ParseRangeLoop(s,
                        ValuesIterator(s, equal_char_offset + 1, COMMA, TRUE),
                        ranges)

\* Bounds and inputs of the specification: "bytes=" before every body over
\* RangeAlphabet of at most MaxRangeBody bytes, other units before the
\* bodies of at most MaxRangeBodyOtherUnit bytes; the caller's vector is
\* empty or holds a range already.
MaxRangeBody == 5
MaxRangeBodyOtherUnit == 2
Digit1 == Digit0 + 1
Digit2 == Digit0 + 2
RangeAlphabet == {Digit1, Digit2, MINUS, COMMA, SP, NUL}
RangeOtherUnits ==
    {<<SP, 66>> \o SubSeq(bytes, 2, 5) \o <<SP, EQUALS>>,
     SubSeq(bytes, 1, 4) \o <<EQUALS>>,
     bytes}
RangeInputs ==
    {bytes \o <<EQUALS>> \o b : b \in SeqsUpTo(RangeAlphabet, MaxRangeBody)}
    \cup {u \o b : u \in RangeOtherUnits,
                   b \in SeqsUpTo(RangeAlphabet, MaxRangeBodyOtherUnit)}
RangeVectors ==
    {<<>>, <<[HttpByteRange EXCEPT !.first_byte_position = 0,
                                   !.last_byte_position = 0]>>}

InitRange ==
    /\ rng \in {[pc |-> "start", ranges_specifier |-> s, ranges0 |-> v,
                 ranges |-> v, ret |-> FALSE] :
                s \in RangeInputs, v \in RangeVectors}
    /\ asm = Idle /\ hdr = Idle /\ nvp = Idle /\ crg = Idle /\ quo = Idle
    /\ unq = Idle /\ loc = Idle /\ cty = Idle /\ aen = Idle /\ lng = Idle /\ cnv = Idle

\* The call; ranges0 keeps the vector as the caller passed it.
ParseRangeHeaderCall ==
    /\ rng.pc = "start"
    /\ LET r == ParseRangeHeader(rng.ranges_specifier, rng.ranges) IN
       rng' = [rng EXCEPT !.pc = "done", !.ret = r.ret, !.ranges = r.ranges]
    /\ UNCHANGED <<asm, hdr, nvp, crg, quo,
                 unq, loc, cty, aen, lng, cnv>>

NextRange == ParseRangeHeaderCall

SpecRange == InitRange /\ [][NextRange]_vars

\* The pieces of s between the bytes equal to c, empty ones included.
RECURSIVE SplitOn(_, _)
SplitOn(s, c) ==
    LET at == {i \in 1..Len(s) : s[i] = c} IN
    IF at = {} THEN <<s>>
    ELSE <<SubSeq(s, 1, Min(at) - 1)>>
           \o SplitOn(SubSeq(s, Min(at) + 1, Len(s)), c)

IsNumber(s) == s # <<>> /\ \A i \in 1..Len(s) : IsAsciiDigit(s[i])

\* A byte-range-spec as C6 writes it: first-last with first <= last, first-,
\* or -suffix with suffix > 0, the numbers in decimal digits.
FirstOf(spec) == SubSeq(spec, 1, Find(spec, 0, Len(spec), MINUS))

LastOf(spec) == SubSeq(spec, Find(spec, 0, Len(spec), MINUS) + 2, Len(spec))

IsRangeSpec(spec) ==
    /\ Count(spec, MINUS) = 1
    /\ \/ IsNumber(FirstOf(spec)) /\ LastOf(spec) = <<>>
       \/ /\ IsNumber(FirstOf(spec)) /\ IsNumber(LastOf(spec))
          /\ DigitsValue(FirstOf(spec)) <= DigitsValue(LastOf(spec))
       \/ /\ FirstOf(spec) = <<>> /\ IsNumber(LastOf(spec))
          /\ DigitsValue(LastOf(spec)) > 0

RangeOfSpec(spec) ==
    IF FirstOf(spec) = <<>>
    THEN [HttpByteRange EXCEPT !.suffix_length = DigitsValue(LastOf(spec))]
    ELSE IF LastOf(spec) = <<>>
    THEN [HttpByteRange EXCEPT
            !.first_byte_position = DigitsValue(FirstOf(spec))]
    ELSE [HttpByteRange EXCEPT
            !.first_byte_position = DigitsValue(FirstOf(spec)),
            !.last_byte_position = DigitsValue(LastOf(spec))]

\* The text after the first '=' of the value.
RangeSetOf(s) == SubSeq(s, Find(s, 0, Len(s), EQUALS) + 2, Len(s))

\* A well-formed Range value: 'bytes=' and a non-empty list of specs.
IsWellFormedRange(s) ==
    /\ Len(s) > Len(bytes)
    /\ SubSeq(s, 1, Len(bytes) + 1) = bytes \o <<EQUALS>>
    /\ LET specs == SplitOn(RangeSetOf(s), COMMA) IN
       \A k \in 1..Len(specs) : IsRangeSpec(specs[k])

ExpectedRanges(s) ==
    LET specs == SplitOn(RangeSetOf(s), COMMA) IN
    [k \in 1..Len(specs) |-> RangeOfSpec(specs[k])]

\* C6 as stated: for a well-formed Range value the call returns true and
\* appends one ByteRange per spec, in order, with the numbers as written.
C6_WellFormedRangesParsed ==
    (rng.pc = "done" /\ IsWellFormedRange(rng.ranges_specifier)) =>
        /\ rng.ret
        /\ rng.ranges = rng.ranges0 \o ExpectedRanges(rng.ranges_specifier)

\* The ranges the value lists: the LWS-trimmed, non-empty pieces between the
\* commas of the text after the first '='.
RECURSIVE NonEmpty(_)
NonEmpty(ss) ==
    IF ss = <<>> THEN <<>>
    ELSE (IF Head(ss) = <<>> THEN <<>> ELSE <<Head(ss)>>) \o NonEmpty(Tail(ss))

ListedRanges(s) ==
    LET pieces == SplitOn(RangeSetOf(s), COMMA) IN
    NonEmpty([k \in 1..Len(pieces) |-> TrimLWS(pieces[k])])

HasNoEquals(s) == Count(s, EQUALS) = 0

UnitIsNotBytes(s) ==
    ~LowerCaseEqualsASCII(TrimLWS(Sub(s, 0, Find(s, 0, Len(s), EQUALS))),
                          bytes)

\* Some listed range has no '-', or has nothing on either side of its
\* first '-'.
SomeRangeUnusable(s) ==
    \E k \in 1..Len(ListedRanges(s)) :
        LET r == ListedRanges(s)[k] IN
        \/ Count(r, MINUS) = 0
        \/ (TrimLWS(FirstOf(r)) = <<>> /\ TrimLWS(LastOf(r)) = <<>>)

RangeInvariantHolds(range) ==
    (range.first_byte_position # kPositionNotSpecified
     /\ range.last_byte_position # kPositionNotSpecified)
        => range.first_byte_position <= range.last_byte_position

\* What C7 says of every call, whether the list of ranges or the vector is
\* the thing that must not be empty.
RangeFailuresReported ==
    /\ (HasNoEquals(rng.ranges_specifier)
        \/ UnitIsNotBytes(rng.ranges_specifier)
        \/ SomeRangeUnusable(rng.ranges_specifier)) => ~rng.ret
    /\ rng.ret =>
          /\ Len(rng.ranges) =
                Len(rng.ranges0) + Len(ListedRanges(rng.ranges_specifier))
          /\ \A k \in 1..Len(rng.ranges) : RangeInvariantHolds(rng.ranges[k])

\* C7 as stated: the call returns false when the value has no '=', the unit
\* is not 'bytes', a listed range has no '-' or neither side, a ByteRange
\* violates first <= last, or the list of ranges is empty; it returns true
\* only if every listed range parsed and at least one range was produced.
C7_RangeFailures ==
    rng.pc = "done" =>
        /\ RangeFailuresReported
        /\ ListedRanges(rng.ranges_specifier) = <<>> => ~rng.ret
        /\ rng.ret => Len(rng.ranges) > Len(rng.ranges0)

\* C7 as amended: the same, with the emptiness that of the vector on
\* return: the call returns false when the vector is empty on return, so
\* also when no range is listed and the vector passed in was empty, and
\* returns true only if every listed range parsed and the vector is not
\* empty on return.
C7_RangeFailuresVector ==
    rng.pc = "done" =>
        /\ RangeFailuresReported
        /\ rng.ranges = <<>> => ~rng.ret
        /\ (rng.ranges0 = <<>>
            /\ ListedRanges(rng.ranges_specifier) = <<>>) => ~rng.ret

\* C7's case: 'bytes=' with no range listed was parsed into a vector that
\* held a range already, and the call returned true.
C7_Witness ==
    /\ rng.pc = "done"
    /\ ~HasNoEquals(rng.ranges_specifier)
    /\ ~UnitIsNotBytes(rng.ranges_specifier)
    /\ ListedRanges(rng.ranges_specifier) = <<>>
    /\ rng.ranges0 # <<>>
    /\ rng.ret

(***************************************************************************)
(* ParseContentRangeHeaderFor206.                                          *)
(***************************************************************************)

\* The three outputs left as the && chain wrote them.
KeepOutputs(outs) == outs

\* *first_byte_position = *last_byte_position = *instance_length = -1;
ResetOutputs(outs) ==
    [first_byte_position |-> -1, last_byte_position |-> -1,
     instance_length |-> -1]

\* The call.  content_range_spec is the first n bytes of buffer, the memory
\* it points into, and outs holds the three outputs as the caller passed
\* them.  Offsets are offsets into buffer.  A number a failed StringToInt64
\* leaves in its output is not modelled: the reset before "return false"
\* overwrites it.
ParseContentRangeHeaderFor206(buffer, n, outs) ==
    LET outs0 == ResetOutputs(outs)
        spec == TrimLWSImplementation(buffer, 0, n)
        space_position == Find(buffer, spec.begin, spec.end, SP)
        minus_position == Find(buffer, space_position + 1, spec.end, MINUS)
        slash_position == Find(buffer, minus_position + 1, spec.end, SLASH)
        first == StringToInt64(buffer,
                   TrimLWSImplementation(buffer, space_position + 1,
                                         minus_position).begin)
        last == StringToInt64(buffer,
                   TrimLWSImplementation(buffer, minus_position + 1,
                                         slash_position).begin)
        length == StringToInt64(buffer,
                   TrimLWSImplementation(buffer, slash_position + 1,
                                         spec.end).begin)
        outs1 == IF first.ok
                 THEN [outs0 EXCEPT !.first_byte_position = first.value]
                 ELSE outs0
        outs2 == IF last.ok
                 THEN [outs1 EXCEPT !.last_byte_position = last.value]
                 ELSE outs1
        outs3 == IF length.ok
                 THEN [outs2 EXCEPT !.instance_length = length.value]
                 ELSE outs2
    IN
    IF space_position = spec.end THEN [ret |-> FALSE, outs |-> outs0]
    ELSE IF ~LowerCaseEqualsASCII(
                TrimLWS(Sub(buffer, spec.begin, space_position)), bytes)
    THEN [ret |-> FALSE, outs |-> outs0]
    ELSE IF minus_position = spec.end THEN [ret |-> FALSE, outs |-> outs0]
    ELSE IF slash_position = spec.end THEN [ret |-> FALSE, outs |-> outs0]
    ELSE IF ~(first.ok /\ first.value >= 0)
    THEN [ret |-> FALSE, outs |-> ResetOutputs(outs1)]
    ELSE IF ~(last.ok /\ last.value >= first.value)
    THEN [ret |-> FALSE, outs |-> ResetOutputs(outs2)]
    ELSE IF ~(length.ok /\ length.value > last.value)
    THEN [ret |-> FALSE, outs |-> ResetOutputs(outs3)]
    ELSE [ret |-> TRUE, outs |-> outs3]

\* Bounds and inputs of the specification: a unit, then three fields with
\* '-' and '/' between them or left out; a field is empty, '*', a digit up
\* to MaxContentRangeDigit, with a space before it or a NUL after it; the
\* piece is followed in memory by its terminator or by one more digit.
MaxContentRangeDigit == 2
ContentRangeUnits ==
    {bytes \o <<SP>>,
     <<SP, 66>> \o SubSeq(bytes, 2, 5) \o <<SP, SP>>,
     SubSeq(bytes, 1, 4) \o <<SP>>,
     bytes}
ContentRangeFields ==
    {<<>>, <<STAR>>}
    \cup {<<Digit0 + k>> : k \in 0..MaxContentRangeDigit}
    \cup {<<SP, Digit0 + k>> : k \in 0..MaxContentRangeDigit}
    \cup {<<Digit0 + k, NUL>> : k \in 0..MaxContentRangeDigit}
ContentRangeSpecs ==
    {u \o f \o d1 \o l \o d2 \o i :
       u \in ContentRangeUnits,
       f \in ContentRangeFields, d1 \in {<<MINUS>>, <<>>},
       l \in ContentRangeFields, d2 \in {<<SLASH>>, <<>>},
       i \in ContentRangeFields}
ContentRangeTails == {<<>>, <<Digit1>>}
ContentRangeOutputs ==
    {[first_byte_position |-> -1, last_byte_position |-> -1,
      instance_length |-> -1],
     [first_byte_position |-> 7, last_byte_position |-> 8,
      instance_length |-> 9]}

InitContentRange ==
    /\ crg \in {[pc |-> "start", content_range_spec |-> s,
                 buffer |-> s \o tail, outs0 |-> o, outs |-> o,
                 ret |-> FALSE] :
                s \in ContentRangeSpecs, tail \in ContentRangeTails,
                o \in ContentRangeOutputs}
    /\ asm = Idle /\ hdr = Idle /\ nvp = Idle /\ rng = Idle /\ quo = Idle
    /\ unq = Idle /\ loc = Idle /\ cty = Idle /\ aen = Idle /\ lng = Idle /\ cnv = Idle

\* The call; outs0 keeps the outputs as the caller passed them.
ParseContentRangeCall ==
    /\ crg.pc = "start"
    /\ LET r == ParseContentRangeHeaderFor206(
                    crg.buffer, Len(crg.content_range_spec), crg.outs) IN
       crg' = [crg EXCEPT !.pc = "done", !.ret = r.ret, !.outs = r.outs]
    /\ UNCHANGED <<asm, hdr, nvp, rng, quo,
                 unq, loc, cty, aen, lng, cnv>>

NextContentRange == ParseContentRangeCall

SpecContentRange == InitContentRange /\ [][NextContentRange]_vars

\* 'bytes first-last/length' in decimal digits with
\* 0 <= first <= last < length.
IsWellFormedContentRange(s) ==
    /\ Len(s) > Len(bytes) + 1
    /\ SubSeq(s, 1, Len(bytes) + 1) = bytes \o <<SP>>
    /\ LET rest == SubSeq(s, Len(bytes) + 2, Len(s))
           byMinus == SplitOn(rest, MINUS)
       IN  /\ Len(byMinus) = 2
           /\ Len(SplitOn(byMinus[2], SLASH)) = 2
           /\ LET f == byMinus[1]
                  l == SplitOn(byMinus[2], SLASH)[1]
                  i == SplitOn(byMinus[2], SLASH)[2]
              IN  /\ IsNumber(f) /\ IsNumber(l) /\ IsNumber(i)
                  /\ DigitsValue(f) <= DigitsValue(l)
                  /\ DigitsValue(l) < DigitsValue(i)

ExpectedContentRange(s) ==
    LET rest == SubSeq(s, Len(bytes) + 2, Len(s))
        byMinus == SplitOn(rest, MINUS)
        bySlash == SplitOn(byMinus[2], SLASH)
    IN  [first_byte_position |-> DigitsValue(byMinus[1]),
         last_byte_position |-> DigitsValue(bySlash[1]),
         instance_length |-> DigitsValue(bySlash[2])]

\* C8 as stated: for 'bytes first-last/length' with
\* 0 <= first <= last < length the call returns true and sets the outputs to
\* (first, last, length).
C8_ContentRangeParsed ==
    (crg.pc = "done" /\ crg.buffer = crg.content_range_spec
     /\ IsWellFormedContentRange(crg.content_range_spec)) =>
        /\ crg.ret
        /\ crg.outs = ExpectedContentRange(crg.content_range_spec)

\* C9: when the call returns false the three outputs are -1, whatever they
\* held before; when it returns true they satisfy
\* 0 <= first <= last < length.
C9_ContentRangeOutputs ==
    crg.pc = "done" =>
        /\ ~crg.ret =>
              /\ crg.outs.first_byte_position = -1
              /\ crg.outs.last_byte_position = -1
              /\ crg.outs.instance_length = -1
        /\ crg.ret =>
              /\ 0 <= crg.outs.first_byte_position
              /\ crg.outs.first_byte_position <= crg.outs.last_byte_position
              /\ crg.outs.last_byte_position < crg.outs.instance_length

\* C9's case: 'bytes *-l/i' failed on its first number after the unit, the
\* '-' and the '/' were found, with outputs that held other values before.
C9_Witness ==
    /\ crg.pc = "done"
    /\ ~crg.ret
    /\ crg.outs0.first_byte_position = 7
    /\ crg.outs.first_byte_position = -1
    /\ Len(crg.content_range_spec) >= Len(bytes) + 2
    /\ SubSeq(crg.content_range_spec, 1, Len(bytes) + 2)
          = bytes \o <<SP, STAR>>
    /\ Count(crg.content_range_spec, MINUS) = 1
    /\ Count(crg.content_range_spec, SLASH) = 1

(***************************************************************************)
(* The specification of the quoting codec.                                 *)
(***************************************************************************)

\* Bounds and inputs of the codec's specification.
MaxQuoteLen == 4
QuoteAlphabet == {DQUOTE, BACKSLASH, LetterA, SP}

InitQuote ==
    /\ quo \in {[pc |-> "start", s |-> s, quoted |-> <<>>,
                 unquoted |-> <<>>, requoted |-> <<>>] :
                s \in SeqsUpTo(QuoteAlphabet, MaxQuoteLen)}
    /\ asm = Idle /\ hdr = Idle /\ nvp = Idle /\ rng = Idle /\ crg = Idle
    /\ unq = Idle /\ loc = Idle /\ cty = Idle /\ aen = Idle /\ lng = Idle /\ cnv = Idle

\* q = Quote(s)
QuoteCall ==
    /\ quo.pc = "start"
    /\ quo' = [quo EXCEPT !.pc = "quoted", !.quoted = Quote(quo.s)]
    /\ UNCHANGED <<asm, hdr, nvp, rng, crg,
                 unq, loc, cty, aen, lng, cnv>>

\* u = Unquote(q)
UnquoteCall ==
    /\ quo.pc = "quoted"
    /\ quo' = [quo EXCEPT !.pc = "unquoted",
                          !.unquoted = Unquote(quo.quoted)]
    /\ UNCHANGED <<asm, hdr, nvp, rng, crg,
                 unq, loc, cty, aen, lng, cnv>>

\* r = Quote(u)
RequoteCall ==
    /\ quo.pc = "unquoted"
    /\ quo' = [quo EXCEPT !.pc = "done", !.requoted = Quote(quo.unquoted)]
    /\ UNCHANGED <<asm, hdr, nvp, rng, crg,
                 unq, loc, cty, aen, lng, cnv>>

NextQuote == QuoteCall \/ UnquoteCall \/ RequoteCall

SpecQuote == InitQuote /\ [][NextQuote]_vars

\* C10: Quote(Unquote(Quote(s))) = Quote(s) for every s without NUL, CR or
\* LF, the empty string and strings with '"' and '\' included.
C10_QuoteUnquoteQuote ==
    quo.pc = "done" => quo.requoted = quo.quoted

\* C10's case: the round trip has run on a string holding both a quotation
\* mark and a backslash.
C10_Witness ==
    /\ quo.pc = "done"
    /\ \E i, j \in 1..Len(quo.s) : quo.s[i] = DQUOTE /\ quo.s[j] = BACKSLASH
    /\ quo.unquoted = quo.s

(***************************************************************************)
(* Unquote and StrictUnquote on arbitrary strings.                         *)
(***************************************************************************)

\* A StrictUnquote that assigns out before it knows the string is valid.
StrictUnquoteAssignsFirst(str, out) == UnquoteImpl(str, TRUE)

\* StrictUnquote(str, out) with out as the caller passed it: *out is
\* assigned only by the last statement before "return true".
StrictUnquoteInto(str, out) ==
    [ok |-> UnquoteImpl(str, TRUE).ok,
     out |-> IF UnquoteImpl(str, TRUE).ok
             THEN UnquoteImpl(str, TRUE).out ELSE out]

\* Bounds and inputs of the specification.
MaxUnquoteLen == 5
UnquoteOutputs == {<<>>, <<LetterX>>}

InitUnquote ==
    /\ unq \in {[pc |-> "start", str |-> s, out0 |-> o, out |-> o,
                 ret |-> FALSE, result |-> <<>>] :
                s \in SeqsUpTo(QuoteAlphabet, MaxUnquoteLen),
                o \in UnquoteOutputs}
    /\ asm = Idle /\ hdr = Idle /\ nvp = Idle /\ rng = Idle /\ crg = Idle
    /\ quo = Idle /\ loc = Idle /\ cty = Idle /\ aen = Idle /\ lng = Idle /\ cnv = Idle

\* result = Unquote(str)
UnquoteStringCall ==
    /\ unq.pc = "start"
    /\ unq' = [unq EXCEPT !.pc = "unquoted", !.result = Unquote(unq.str)]
    /\ UNCHANGED <<asm, hdr, nvp, rng, crg, quo, loc, cty, aen, lng, cnv>>

\* ret = StrictUnquote(str, &out)
StrictUnquoteCall ==
    /\ unq.pc = "unquoted"
    /\ LET r == StrictUnquoteInto(unq.str, unq.out) IN
       unq' = [unq EXCEPT !.pc = "done", !.ret = r.ok, !.out = r.out]
    /\ UNCHANGED <<asm, hdr, nvp, rng, crg, quo, loc, cty, aen, lng, cnv>>

NextUnquote == UnquoteStringCall \/ StrictUnquoteCall

SpecUnquote == InitUnquote /\ [][NextUnquote]_vars

\* The number of backslashes that stand directly before position i of s.
BackslashRun(s, i) ==
    Cardinality({k \in 1..(i - 1) :
                   \A j \in (i - k)..(i - 1) : s[j] = BACKSLASH})

\* The bytes between the outer quotation marks.
Interior(s) == SubSeq(s, 2, Len(s) - 1)

\* A quotation mark with an even number of backslashes before it.
HasUnescapedQuote(in) ==
    \E i \in 1..Len(in) : in[i] = DQUOTE /\ BackslashRun(in, i) % 2 = 0

\* An odd number of backslashes at the end.
EndsOnEscape(in) == BackslashRun(in, Len(in) + 1) % 2 = 1

StrictUnquoteMustFail(s) ==
    \/ s = <<>>
    \/ s[1] # DQUOTE
    \/ Len(s) < 2
    \/ s[Len(s)] # DQUOTE
    \/ HasUnescapedQuote(Interior(s))
    \/ EndsOnEscape(Interior(s))

\* C11: Unquote returns a string for every input; StrictUnquote returns
\* false exactly when the string is empty, does not start with '"', has no
\* closing '"', has an unescaped '"' between the outer ones or ends on an
\* open escape; on false out is as it was, on true out is Unquote(str).
C11_StrictUnquote ==
    /\ unq.pc \in {"unquoted", "done"} => unq.result \in Seq(QuoteAlphabet)
    /\ unq.pc = "done" =>
          /\ ~unq.ret <=> StrictUnquoteMustFail(unq.str)
          /\ ~unq.ret => unq.out = unq.out0
          /\ unq.ret => unq.out = unq.result

\* C11's case: a quoted string with an unescaped '"' inside was refused and
\* the non-empty out kept its value.
C11_Witness ==
    /\ unq.pc = "done"
    /\ ~unq.ret
    /\ Len(unq.str) >= 3
    /\ unq.str[1] = DQUOTE /\ unq.str[Len(unq.str)] = DQUOTE
    /\ HasUnescapedQuote(Interior(unq.str))
    /\ unq.out0 # <<>>
    /\ unq.out = unq.out0

(***************************************************************************)
(* ConvertHeadersBackToHTTPResponse, and the way back through              *)
(* AssembleRawHeaders.                                                     *)
(***************************************************************************)
CRLF == <<CR, LF>>

\* while (tokenizer.GetNext()) StrAppend(&disassembled_headers,
\*                                       {tokenizer.token_piece(), "\r\n"});
RECURSIVE DisassembleLoop(_, _, _)
DisassembleLoop(str, token_end, disassembled_headers) ==
    IF ~QuickGetNext(str, token_end, {NUL}).found THEN disassembled_headers
    ELSE DisassembleLoop(
             str, QuickGetNext(str, token_end, {NUL}).token_end,
             disassembled_headers
               \o Sub(str, QuickGetNext(str, token_end, {NUL}).token_begin,
                      QuickGetNext(str, token_end, {NUL}).token_end)
               \o CRLF)

\* A conversion that leaves out the line breaks between the lines.
ConvertWithoutLineBreaks(str) == Erase(str, NUL) \o CRLF

ConvertHeadersBackToHTTPResponse(str) ==
    DisassembleLoop(str, 0, <<>>) \o CRLF

\* Bounds and inputs of the specification: the inputs of the assembler.
MaxConvertBody == 5

InitConvert ==
    /\ cnv \in {[pc |-> "start", input |-> p \o b, assembled |-> <<>>,
                 response |-> <<>>, reassembled |-> <<>>] :
                p \in AsmPrefixes,
                b \in SeqsUpTo(AsmAlphabet, MaxConvertBody)}
    /\ asm = Idle /\ hdr = Idle /\ nvp = Idle /\ rng = Idle /\ crg = Idle
    /\ quo = Idle /\ unq = Idle /\ loc = Idle /\ cty = Idle /\ aen = Idle
    /\ lng = Idle

\* c = AssembleRawHeaders(x)
ConvertAssembleCall ==
    /\ cnv.pc = "start"
    /\ cnv' = [cnv EXCEPT !.pc = "assembled",
                          !.assembled = AssembleRawHeaders(cnv.input).out]
    /\ UNCHANGED <<asm, hdr, nvp, rng, crg, quo, unq, loc, cty, aen, lng>>

\* r = ConvertHeadersBackToHTTPResponse(c)
ConvertBackCall ==
    /\ cnv.pc = "assembled"
    /\ cnv' = [cnv EXCEPT !.pc = "converted",
                          !.response =
                              ConvertHeadersBackToHTTPResponse(cnv.assembled)]
    /\ UNCHANGED <<asm, hdr, nvp, rng, crg, quo, unq, loc, cty, aen, lng>>

\* c2 = AssembleRawHeaders(r)
ConvertReassembleCall ==
    /\ cnv.pc = "converted"
    /\ cnv' = [cnv EXCEPT !.pc = "done",
                          !.reassembled =
                              AssembleRawHeaders(cnv.response).out]
    /\ UNCHANGED <<asm, hdr, nvp, rng, crg, quo, unq, loc, cty, aen, lng>>

NextConvert == ConvertAssembleCall \/ ConvertBackCall \/ ConvertReassembleCall

SpecConvert == InitConvert /\ [][NextConvert]_vars

\* C12: for every input x, with c = AssembleRawHeaders(x),
\* AssembleRawHeaders(ConvertHeadersBackToHTTPResponse(c)) = c.
C12_AssembleConvertInverse ==
    cnv.pc = "done" => cnv.reassembled = cnv.assembled

\* C12 as amended: the same for every input without NUL in which
\* LocateStartOfStatusLine finds the status line.
C12_InverseOnResponses ==
    (cnv.pc = "done" /\ Count(cnv.input, NUL) = 0
     /\ LocateStartOfStatusLine(cnv.input) # npos) =>
        cnv.reassembled = cnv.assembled

\* C12's case: a response with a header line and a continuation line,
\* which the assembler joined to the header line, has made the round trip.
C12_Witness ==
    /\ cnv.pc = "done"
    /\ Count(cnv.input, NUL) = 0
    /\ LocateStartOfStatusLine(cnv.input) # npos
    /\ \E i \in 1..(Len(cnv.input) - 2) :
          /\ cnv.input[i] = COLON
          /\ cnv.input[i + 1] \in {CR, LF}
          /\ cnv.input[i + 2] = SP
    /\ Count(cnv.assembled, NUL) = 3
    /\ \E i \in 1..(Len(cnv.assembled) - 1) :
          cnv.assembled[i] = COLON /\ cnv.assembled[i + 1] = SP
    /\ cnv.reassembled = cnv.assembled

(***************************************************************************)
(* LocateEndOfHeaders and LocateEndOfAdditionalHeaders.                    *)
(***************************************************************************)

\* A seed that sets was_lf only.
SeedLastCNone(accept_empty_header_list) == NUL

\* last_c before the loop: '\n' when an empty header list is accepted.
SeedLastC(accept_empty_header_list) ==
    IF accept_empty_header_list THEN LF ELSE NUL

\* A rule that lets any CR keep was_lf.
WasLfAfterAnyCR(c, last_c, was_lf) ==
    IF c # CR THEN FALSE ELSE was_lf

\* was_lf after a byte c that is not '\n':
\* else if (c != '\r' || last_c != '\n') was_lf = false;
WasLfAfter(c, last_c, was_lf) ==
    IF c # CR \/ last_c # LF THEN FALSE ELSE was_lf

\* for (; i < buf_len; ++i) { ... } return npos;
RECURSIVE LocateEndOfHeadersLoop(_, _, _, _)
LocateEndOfHeadersLoop(buf, i, last_c, was_lf) ==
    IF i >= Len(buf) THEN npos
    ELSE IF buf[i + 1] = LF
         THEN IF was_lf THEN i + 1
              ELSE LocateEndOfHeadersLoop(buf, i + 1, LF, TRUE)
         ELSE LocateEndOfHeadersLoop(buf, i + 1, buf[i + 1],
                                     WasLfAfter(buf[i + 1], last_c, was_lf))

\* buf holds the buf_len bytes received.
LocateEndOfHeadersHelper(buf, i, accept_empty_header_list) ==
    LocateEndOfHeadersLoop(buf, i, SeedLastC(accept_empty_header_list),
                           accept_empty_header_list)

LocateEndOfAdditionalHeaders(buf, i) ==
    LocateEndOfHeadersHelper(buf, i, TRUE)

LocateEndOfHeaders(buf, i) == LocateEndOfHeadersHelper(buf, i, FALSE)

\* Bounds and inputs of the specification: a buffer that grows by one byte
\* at a time up to MaxLocateLen bytes, scanned from an offset up to
\* MaxLocateStart after every byte.
MaxLocateLen == 7
MaxLocateStart == 2
LocateAlphabet == {LF, CR, LetterA}

InitLocate ==
    /\ loc \in {[pc |-> "read", buf |-> <<>>, i |-> i,
                 end |-> npos, additional_end |-> npos,
                 prev_len |-> 0, prev_end |-> npos] :
                i \in 0..MaxLocateStart}
    /\ asm = Idle /\ hdr = Idle /\ nvp = Idle /\ rng = Idle /\ crg = Idle
    /\ quo = Idle /\ unq = Idle /\ cty = Idle /\ aen = Idle /\ lng = Idle
    /\ cnv = Idle

\* The caller reads one more byte into the buffer and keeps what the last
\* call of LocateEndOfHeaders returned, and for which length.
LocateReceive ==
    /\ loc.pc = "read"
    /\ Len(loc.buf) < MaxLocateLen
    /\ \E c \in LocateAlphabet :
          loc' = [loc EXCEPT !.pc = "locate", !.buf = Append(loc.buf, c),
                             !.prev_len = Len(loc.buf),
                             !.prev_end = loc.end]
    /\ UNCHANGED <<asm, hdr, nvp, rng, crg, quo, unq, cty, aen, lng, cnv>>

\* end = LocateEndOfHeaders(buf, buf_len, i)
LocateEndOfHeadersCall ==
    /\ loc.pc = "locate"
    /\ loc' = [loc EXCEPT !.pc = "additional",
                          !.end = LocateEndOfHeaders(loc.buf, loc.i)]
    /\ UNCHANGED <<asm, hdr, nvp, rng, crg, quo, unq, cty, aen, lng, cnv>>

\* additional_end = LocateEndOfAdditionalHeaders(buf, buf_len, i)
LocateEndOfAdditionalHeadersCall ==
    /\ loc.pc = "additional"
    /\ loc' = [loc EXCEPT !.pc = "read",
                          !.additional_end =
                              LocateEndOfAdditionalHeaders(loc.buf, loc.i)]
    /\ UNCHANGED <<asm, hdr, nvp, rng, crg, quo, unq, cty, aen, lng, cnv>>

NextLocate ==
    \/ LocateReceive
    \/ LocateEndOfHeadersCall
    \/ LocateEndOfAdditionalHeadersCall

SpecLocate == InitLocate /\ [][NextLocate]_vars

\* The bytes of buf at offsets [start, e) end in LF LF or in LF CR LF.
EndsInTwoBreaks(buf, start, e) ==
    /\ start < e /\ e <= Len(buf)
    /\ buf[e] = LF
    /\ \/ e - 2 >= start /\ buf[e - 1] = LF
       \/ e - 3 >= start /\ buf[e - 1] = CR /\ buf[e - 2] = LF

TwoBreakEnds(buf, start) ==
    {e \in 1..Len(buf) : EndsInTwoBreaks(buf, start, e)}

\* C13: LocateEndOfHeaders returns the smallest offset e, start < e <= len,
\* at which the bytes from start end in LF LF or LF CR LF, and not found
\* when there is none; so a result stays the same when the buffer grows, and
\* after not found for length n a later result is greater than n.
C13_EndOfHeaders ==
    loc.pc = "additional" =>
        /\ IF TwoBreakEnds(loc.buf, loc.i) = {} THEN loc.end = npos
           ELSE loc.end = Min(TwoBreakEnds(loc.buf, loc.i))
        /\ loc.prev_end # npos => loc.end = loc.prev_end
        /\ loc.prev_end = npos => (loc.end = npos \/ loc.end > loc.prev_len)

\* C13's case: the end was found behind LF CR LF after a CR that follows no
\* LF, on the byte just received, after not found for the shorter buffer.
C13_Witness ==
    /\ loc.pc = "additional"
    /\ loc.prev_end = npos
    /\ loc.end = Len(loc.buf)
    /\ loc.end >= loc.i + 5
    /\ loc.buf[loc.end - 1] = CR
    /\ \E k \in (loc.i + 1)..(loc.end - 4) :
          loc.buf[k] = LF /\ loc.buf[k + 1] = CR /\ loc.buf[k + 2] = CR

\* buf with one LF put in before offset start.
WithLFAt(buf, start) ==
    SubSeq(buf, 1, start) \o <<LF>> \o SubSeq(buf, start + 1, Len(buf))

\* C14: LocateEndOfAdditionalHeaders returns what LocateEndOfHeaders returns
\* on the bytes with one LF put in before start, less one: start + 1 when
\* buf[start] is LF, start + 2 when CR LF is at start, and any other result
\* is an end of two line breaks.
C14_EndOfAdditionalHeaders ==
    (loc.pc = "read" /\ loc.buf # <<>> /\ loc.i <= Len(loc.buf)) =>
        /\ loc.additional_end =
              IF LocateEndOfHeaders(WithLFAt(loc.buf, loc.i), loc.i) = npos
              THEN npos
              ELSE LocateEndOfHeaders(WithLFAt(loc.buf, loc.i), loc.i) - 1
        /\ (loc.i < Len(loc.buf) /\ loc.buf[loc.i + 1] = LF) =>
              loc.additional_end = loc.i + 1
        /\ (loc.i + 1 < Len(loc.buf) /\ loc.buf[loc.i + 1] = CR
            /\ loc.buf[loc.i + 2] = LF) => loc.additional_end = loc.i + 2
        /\ loc.additional_end # npos =>
              \/ loc.additional_end = loc.i + 1
              \/ loc.additional_end = loc.i + 2 /\ loc.buf[loc.i + 1] = CR
              \/ EndsInTwoBreaks(loc.buf, loc.i, loc.additional_end)

\* C14's case: CR LF at start ended the additional headers where
\* LocateEndOfHeaders found no end.
C14_Witness ==
    /\ loc.pc = "read"
    /\ loc.i > 0
    /\ Len(loc.buf) > loc.i + 2
    /\ loc.buf[loc.i + 1] = CR /\ loc.buf[loc.i + 2] = LF
    /\ loc.additional_end = loc.i + 2
    /\ loc.end = npos

(***************************************************************************)
(* ParseContentType.                                                       *)
(***************************************************************************)
LowerA == ToLowerASCII(LetterA)
charset == <<99, 104, 97, 114, 115, 101, 116>>
boundary == <<98, 111, 117, 110, 100, 97, 114, 121>>
HTTP_LWS == {SP, HT}

\* std::string::find_first_of(set, pos) and find_first_not_of(set, pos):
\* an offset, or npos.
FindFirstOf(s, set, pos) ==
    IF pos = npos \/ {i \in pos..(Len(s) - 1) : s[i + 1] \in set} = {}
    THEN npos
    ELSE Min({i \in pos..(Len(s) - 1) : s[i + 1] \in set})

FindFirstNotOf(s, set, pos) ==
    IF pos = npos \/ {i \in pos..(Len(s) - 1) : s[i + 1] \notin set} = {}
    THEN npos
    ELSE Min({i \in pos..(Len(s) - 1) : s[i + 1] \notin set})

\* A lower-case copy of the string.
ToLowerASCIIString(s) == [i \in 1..Len(s) |-> ToLowerASCII(s[i])]

\* The unquoted parameter value that starts at value_start: up to the next
\* ';' or the end, without its terminal whitespace.
UnquotedParamValue(s, value_start, semicolon) ==
    Sub(s, value_start,
        SkipLWSBackward(s, value_start,
                        IF semicolon = npos THEN Len(s) ELSE semicolon))

\* The loop over a quoted parameter value from the byte after the open
\* quote: [param_value, offset], offset at the close quote or at the end.
RECURSIVE QuotedParamValue(_, _, _)
QuotedParamValue(s, offset, param_value) ==
    IF ~(offset < Len(s) /\ s[offset + 1] # DQUOTE)
    THEN [param_value |-> param_value, offset |-> offset]
    ELSE IF s[offset + 1] = BACKSLASH /\ offset + 1 < Len(s)
         THEN QuotedParamValue(s, offset + 2,
                               Append(param_value, s[offset + 2]))
         ELSE QuotedParamValue(s, offset + 1,
                               Append(param_value, s[offset + 1]))

\* The parameter loop.  st holds charset_value, type_has_charset,
\* type_has_boundary and the boundary argument (requested: the pointer is
\* not null).
RECURSIVE ParseParameters(_, _, _)

\* The end of the loop body: the first charset and the first boundary are
\* kept; offset is at the next ';' or npos.
StoreParameter(s, param_name, param_value, offset, st) ==
    IF ~st.type_has_charset /\ LowerCaseEqualsASCII(param_name, charset)
    THEN ParseParameters(s, offset,
                         [st EXCEPT !.type_has_charset = TRUE,
                                    !.charset_value = param_value])
    ELSE IF st.boundary_requested /\ ~st.type_has_boundary
            /\ LowerCaseEqualsASCII(param_name, boundary)
    THEN ParseParameters(s, offset,
                         [st EXCEPT !.type_has_boundary = TRUE,
                                    !.boundary = param_value])
    ELSE ParseParameters(s, offset, st)

\* The value of the parameter; offset is the first byte after '=' that is
\* no whitespace, or npos.
ParseParameterValue(s, param_name, offset, st) ==
    IF offset = npos THEN st
    ELSE IF s[offset + 1] = SEMICOLON THEN ParseParameters(s, offset, st)
    ELSE IF s[offset + 1] # DQUOTE
    THEN StoreParameter(
             s, param_name,
             UnquotedParamValue(s, offset,
                                FindFirstOf(s, {SEMICOLON}, offset)),
             FindFirstOf(s, {SEMICOLON}, offset), st)
    ELSE StoreParameter(
             s, param_name,
             TrimLWS(QuotedParamValue(s, offset + 1, <<>>).param_value),
             FindFirstOf(s, {SEMICOLON},
                         QuotedParamValue(s, offset + 1, <<>>).offset),
             st)

\* The name of the parameter: from param_name_start to offset, the first
\* ';' or '=' after it, or npos.
ParseParameterName(s, param_name_start, offset, st) ==
    IF offset = npos THEN st
    ELSE IF s[offset + 1] = SEMICOLON THEN ParseParameters(s, offset, st)
    ELSE ParseParameterValue(s, Sub(s, param_name_start, offset),
                             FindFirstNotOf(s, HTTP_LWS, offset + 1), st)

\* while (offset < content_type_str.size()): offset is at a ';'.
ParseParameters(s, offset, st) ==
    IF offset = npos \/ offset >= Len(s) THEN st
    ELSE ParseParameterName(
             s, FindFirstNotOf(s, HTTP_LWS, offset + 1),
             FindFirstOf(s, {SEMICOLON, EQUALS},
                         FindFirstNotOf(s, HTTP_LWS, offset + 1)),
             st)

\* A rejection that leaves every output as the caller passed it.
RejectedOutputsUntouched(out, st) == out

\* The outputs when the value is rejected: the loop has written *boundary
\* already.
RejectedOutputs(out, st) == [out EXCEPT !.boundary = st.boundary]

\* The outputs after the loop: out is [mime_type, charset, had_charset,
\* boundary_requested, boundary] as the caller passed them, type the bare
\* media type, st the result of the loop.
StoreContentType(s, type, out, st) ==
    LET out1 == [out EXCEPT !.boundary = st.boundary]
        eq == out.mime_type # <<>>
              /\ LowerCaseEqualsASCII(type, CStr(out.mime_type, 0))
        out2 == IF eq THEN out1
                ELSE [out1 EXCEPT !.mime_type = ToLowerASCIIString(type)]
    IN
    IF Len(s) = 0 \/ s = <<STAR, SLASH, STAR>>
       \/ FindFirstOf(s, {SLASH}, 0) = npos
    THEN RejectedOutputs(out, st)
    ELSE IF (~eq /\ out.had_charset) \/ st.type_has_charset
         THEN [out2 EXCEPT !.had_charset = TRUE,
                           !.charset = ToLowerASCIIString(st.charset_value)]
         ELSE out2

\* The offset where the bare media type starts.
TypeVal(s) ==
    IF FindFirstNotOf(s, HTTP_LWS, 0) = npos THEN Len(s)
    ELSE FindFirstNotOf(s, HTTP_LWS, 0)

\* The offset where the bare media type ends.
TypeEnd(s) ==
    IF FindFirstOf(s, HTTP_LWS \cup {SEMICOLON, 40}, TypeVal(s)) = npos
    THEN Len(s)
    ELSE FindFirstOf(s, HTTP_LWS \cup {SEMICOLON, 40}, TypeVal(s))

ParseContentType(content_type_str, out) ==
    StoreContentType(
        content_type_str,
        Sub(content_type_str, TypeVal(content_type_str),
            TypeEnd(content_type_str)),
        out,
        ParseParameters(
            content_type_str,
            FindFirstOf(content_type_str, {SEMICOLON},
                        TypeEnd(content_type_str)),
            [charset_value |-> <<>>, type_has_charset |-> FALSE,
             type_has_boundary |-> FALSE,
             boundary_requested |-> out.boundary_requested,
             boundary |-> out.boundary]))

\* Bounds and inputs of the specification: a media type followed by at most
\* MaxContentTypeParams pieces, each a parameter or junk; the outputs hold
\* what an earlier call or the caller left in them, and the boundary
\* argument is null or points to a string.
MaxContentTypeParams == 2
ContentTypeTypes ==
    {<<>>, <<STAR, SLASH, STAR>>, <<LowerA, SLASH, LowerA>>,
     <<LetterA, SLASH, LowerA>>, <<LowerA>>, <<SP, LowerA, SLASH, LowerA>>,
     <<LowerA, SLASH, LowerA + 1>>}
ContentTypePieces ==
    {<<SEMICOLON>> \o charset \o <<EQUALS, LowerA>>,
     <<SEMICOLON>> \o charset \o <<EQUALS>>,
     <<SEMICOLON>> \o charset \o <<EQUALS, DQUOTE, DQUOTE>>,
     <<SEMICOLON, 67>> \o SubSeq(charset, 2, 7) \o <<EQUALS, DQUOTE, LetterA>>,
     <<SEMICOLON, SP>> \o charset \o <<SP, EQUALS, LetterA>>,
     <<SEMICOLON>> \o boundary \o <<EQUALS, LowerA>>,
     <<SEMICOLON>> \o boundary
        \o <<EQUALS, SP, DQUOTE, BACKSLASH, DQUOTE, SEMICOLON, DQUOTE>>,
     <<SEMICOLON, LetterX, EQUALS, SLASH, SP>>,
     <<SEMICOLON>> \o charset}
ContentTypeMimeTypes == {<<>>, <<LowerA, SLASH, LowerA>>}
ContentTypeCharsets == {<<>>, <<LowerA>>}
ContentTypeBoundaries ==
    {[boundary_requested |-> FALSE, boundary |-> <<>>],
     [boundary_requested |-> TRUE, boundary |-> <<LetterX>>]}

RECURSIVE Concat(_)
Concat(ss) == IF ss = <<>> THEN <<>> ELSE Head(ss) \o Concat(Tail(ss))

InitContentType ==
    /\ \E ty \in ContentTypeTypes,
          ps \in SeqsUpTo(ContentTypePieces, MaxContentTypeParams),
          m \in ContentTypeMimeTypes, c \in ContentTypeCharsets,
          h \in BOOLEAN, b \in ContentTypeBoundaries :
          cty = [pc |-> "start", content_type_str |-> ty \o Concat(ps),
                 out0 |-> [mime_type |-> m, charset |-> c, had_charset |-> h,
                           boundary_requested |-> b.boundary_requested,
                           boundary |-> b.boundary],
                 out |-> [mime_type |-> m, charset |-> c, had_charset |-> h,
                          boundary_requested |-> b.boundary_requested,
                          boundary |-> b.boundary]]
    /\ asm = Idle /\ hdr = Idle /\ nvp = Idle /\ rng = Idle /\ crg = Idle
    /\ quo = Idle /\ unq = Idle /\ loc = Idle /\ aen = Idle /\ lng = Idle
    /\ cnv = Idle

\* The call; out0 keeps the outputs as the caller passed them.
ParseContentTypeCall ==
    /\ cty.pc = "start"
    /\ cty' = [cty EXCEPT !.pc = "done",
                          !.out = ParseContentType(cty.content_type_str,
                                                   cty.out)]
    /\ UNCHANGED <<asm, hdr, nvp, rng, crg, quo, unq, loc, aen, lng, cnv>>

NextContentType == ParseContentTypeCall

SpecContentType == InitContentType /\ [][NextContentType]_vars

\* The media type of a value: after the leading whitespace, up to the first
\* whitespace, ';' or '('.
MediaTypeOf(s) ==
    LET b == SkipLWSForward(s, 0, Len(s))
        stops == {i \in b..(Len(s) - 1) :
                    s[i + 1] \in {SP, HT, SEMICOLON, 40}}
    IN  Sub(s, b, IF stops = {} THEN Len(s) ELSE Min(stops))

\* C15: when the media type of the value is '*/*', or the value is empty or
\* has no '/', the call leaves mime_type, charset and had_charset as they
\* were.
C15_ContentTypeRejected ==
    (cty.pc = "done"
     /\ (\/ MediaTypeOf(cty.content_type_str) = <<STAR, SLASH, STAR>>
         \/ cty.content_type_str = <<>>
         \/ Count(cty.content_type_str, SLASH) = 0)) =>
        /\ cty.out.mime_type = cty.out0.mime_type
        /\ cty.out.charset = cty.out0.charset
        /\ cty.out.had_charset = cty.out0.had_charset

\* The value of the first charset parameter the loop accepts, empty when
\* there is none.
ParsedCharset(s) ==
    ParseParameters(s, FindFirstOf(s, {SEMICOLON}, TypeEnd(s)),
                    [charset_value |-> <<>>, type_has_charset |-> FALSE,
                     type_has_boundary |-> FALSE,
                     boundary_requested |-> FALSE,
                     boundary |-> <<>>]).charset_value

\* C16: when the media type parsed equals the existing mime_type without
\* regard to case, mime_type is left as it was, and a parsed charset that is
\* empty or absent does not replace a non-empty charset.
C16_SameTypeKeepsCharset ==
    (cty.pc = "done"
     /\ ToLowerASCIIString(MediaTypeOf(cty.content_type_str))
           = ToLowerASCIIString(cty.out0.mime_type)) =>
        /\ cty.out.mime_type = cty.out0.mime_type
        /\ (ParsedCharset(cty.content_type_str) = <<>>
            /\ cty.out0.charset # <<>>) =>
              cty.out.charset = cty.out0.charset

(***************************************************************************)
(* HttpUtil::ParseAcceptEncoding.  allowed_encodings is a set of strings;  *)
(* a result is [ret, allowed_encodings].                                   *)
(***************************************************************************)
DOT == 46
identity == <<105, 100, 101, 110, 116, 105, 116, 121>>
gzip == <<103, 122, 105, 112>>
x_gzip == <<120, MINUS>> \o gzip
compress == <<99, 111, 109, 112, 114, 101, 115, 115>>
x_compress == <<120, MINUS>> \o compress
q == <<113>>
one_point_zero == <<Digit1, DOT, Digit0, Digit0, Digit0>>

\* gurl_base::StartsWith(str, search_for, INSENSITIVE_ASCII).
StartsWith(str, search_for) ==
    /\ Len(search_for) <= Len(str)
    /\ \A i \in 1..Len(search_for) :
          ToLowerASCII(str[i]) = ToLowerASCII(search_for[i])

\* A test that accepts every q-value beginning with "1.000".
QValueStartsWithOne(qvalue) == StartsWith(qvalue, one_point_zero)

\* The test made of a q-value that starts with '1'.
QValueIsOne(qvalue) == StartsWith(one_point_zero, qvalue)

\* nonzero_number after the loop over the digits behind "0.".
NonzeroNumberAlways(qvalue) == TRUE

NonzeroNumber(qvalue) == \E i \in 3..Len(qvalue) : qvalue[i] # Digit0

\* The q-value of an entry: [ok, allowed_encodings]; ok is false where the
\* code returns false.
ParseQValue(encoding, qvalue, allowed_encodings) ==
    IF qvalue = <<>>
    THEN [ok |-> FALSE, allowed_encodings |-> allowed_encodings]
    ELSE IF qvalue[1] = Digit1
    THEN IF QValueIsOne(qvalue)
         THEN [ok |-> TRUE,
               allowed_encodings |->
                   allowed_encodings \cup {ToLowerASCIIString(encoding)}]
         ELSE [ok |-> FALSE, allowed_encodings |-> allowed_encodings]
    ELSE IF qvalue[1] # Digit0
    THEN [ok |-> FALSE, allowed_encodings |-> allowed_encodings]
    ELSE IF Len(qvalue) = 1
    THEN [ok |-> TRUE, allowed_encodings |-> allowed_encodings]
    ELSE IF Len(qvalue) <= 2 \/ Len(qvalue) > 5
    THEN [ok |-> FALSE, allowed_encodings |-> allowed_encodings]
    ELSE IF qvalue[2] # DOT
    THEN [ok |-> FALSE, allowed_encodings |-> allowed_encodings]
    ELSE IF \E i \in 3..Len(qvalue) : ~IsAsciiDigit(qvalue[i])
    THEN [ok |-> FALSE, allowed_encodings |-> allowed_encodings]
    ELSE IF NonzeroNumber(qvalue)
    THEN [ok |-> TRUE,
          allowed_encodings |->
              allowed_encodings \cup {ToLowerASCIIString(encoding)}]
    ELSE [ok |-> TRUE, allowed_encodings |-> allowed_encodings]

\* The parameters of an entry, trimmed: "q" "=" q-value.
ParseEncodingParams(encoding, params, allowed_encodings) ==
    IF FindFirstOf(params, {EQUALS}, 0) = npos
    THEN [ok |-> FALSE, allowed_encodings |-> allowed_encodings]
    ELSE IF ~LowerCaseEqualsASCII(
                 TrimLWS(Sub(params, 0, FindFirstOf(params, {EQUALS}, 0))),
                 q)
    THEN [ok |-> FALSE, allowed_encodings |-> allowed_encodings]
    ELSE ParseQValue(
             encoding,
             TrimLWS(Sub(params, FindFirstOf(params, {EQUALS}, 0) + 1,
                         Len(params))),
             allowed_encodings)

\* An entry with a ';' at semicolon_pos.
ParseEncodingWithParams(entry, semicolon_pos, allowed_encodings) ==
    IF FindFirstOf(TrimLWS(Sub(entry, 0, semicolon_pos)), HTTP_LWS, 0)
         # npos
    THEN [ok |-> FALSE, allowed_encodings |-> allowed_encodings]
    ELSE ParseEncodingParams(
             TrimLWS(Sub(entry, 0, semicolon_pos)),
             TrimLWS(Sub(entry, semicolon_pos + 1, Len(entry))),
             allowed_encodings)

\* The body of the loop for one trimmed entry.
ParseEncodingEntry(entry, allowed_encodings) ==
    IF FindFirstOf(entry, {SEMICOLON}, 0) = npos
    THEN IF FindFirstOf(entry, HTTP_LWS, 0) # npos
         THEN [ok |-> FALSE, allowed_encodings |-> allowed_encodings]
         ELSE [ok |-> TRUE,
               allowed_encodings |->
                   allowed_encodings \cup {ToLowerASCIIString(entry)}]
    ELSE ParseEncodingWithParams(
             entry, FindFirstOf(entry, {SEMICOLON}, 0), allowed_encodings)

\* A mirroring that only adds x-gzip to gzip.
MirrorGzipOneWay(allowed_encodings) ==
    IF gzip \in allowed_encodings
    THEN allowed_encodings \cup {x_gzip} ELSE allowed_encodings

\* The post-processing behind the loop.
MirrorGzip(allowed_encodings) ==
    IF gzip \in allowed_encodings \/ x_gzip \in allowed_encodings
    THEN allowed_encodings \cup {gzip, x_gzip} ELSE allowed_encodings

MirrorCompress(allowed_encodings) ==
    IF compress \in allowed_encodings \/ x_compress \in allowed_encodings
    THEN allowed_encodings \cup {compress, x_compress}
    ELSE allowed_encodings

AcceptEncodingPostProcess(allowed_encodings) ==
    IF allowed_encodings = {}
    THEN [ret |-> TRUE, allowed_encodings |-> {<<STAR>>}]
    ELSE [ret |-> TRUE,
          allowed_encodings |->
              MirrorCompress(MirrorGzip(allowed_encodings \cup {identity}))]

\* while (tokenizer.GetNext()) over accept_encoding with delimiter ','.
RECURSIVE ParseAcceptEncodingLoop(_, _, _)
ParseAcceptEncodingEntryDone(accept_encoding, token_end, r) ==
    IF ~r.ok THEN [ret |-> FALSE, allowed_encodings |-> r.allowed_encodings]
    ELSE ParseAcceptEncodingLoop(accept_encoding, token_end,
                                 r.allowed_encodings)

ParseAcceptEncodingLoop(accept_encoding, token_end, allowed_encodings) ==
    IF ~QuickGetNext(accept_encoding, token_end, {COMMA}).found
    THEN AcceptEncodingPostProcess(allowed_encodings)
    ELSE ParseAcceptEncodingEntryDone(
             accept_encoding,
             QuickGetNext(accept_encoding, token_end, {COMMA}).token_end,
             ParseEncodingEntry(
                 TrimLWS(Sub(accept_encoding,
                             QuickGetNext(accept_encoding, token_end,
                                          {COMMA}).token_begin,
                             QuickGetNext(accept_encoding, token_end,
                                          {COMMA}).token_end)),
                 allowed_encodings))

ParseAcceptEncoding(accept_encoding, allowed_encodings) ==
    IF FindFirstOf(accept_encoding, {DQUOTE}, 0) # npos
    THEN [ret |-> FALSE, allowed_encodings |-> allowed_encodings]
    ELSE ParseAcceptEncodingLoop(accept_encoding, 0, {})

\* Bounds and inputs of the specification.  A header is a list of entries
\* joined by ','; one entry has an encoding and a parameter with a q-value
\* of a '0' or '1', a '.' and at most MaxQDigits further bytes, or a fixed
\* malformed q-value, in one of several layouts; at most MaxAcceptOthers
\* further entries stand before or behind it.
MaxQDigits == 4
MaxAcceptOthers == 1
AcceptQValues ==
    {<<h>> : h \in {Digit0, Digit1}}
      \cup {<<h, DOT>> \o ds : h \in {Digit0, Digit1},
                               ds \in SeqsUpTo({Digit0, Digit1, DOT},
                                               MaxQDigits)}
      \cup {<<>>, <<Digit0, Digit0>>, <<Digit2>>, <<Digit1, Digit0>>}
AcceptFewQValues == {<<Digit1>>, <<Digit0>>, <<Digit0, DOT, Digit1>>, <<>>}
AcceptNames ==
    {gzip, <<88, MINUS>> \o compress, identity, <<STAR>>,
     <<103, SP, 122>>}
AcceptQNames == {gzip, <<88, MINUS>> \o compress}
AcceptEntriesWithQ ==
    {n \o <<SEMICOLON>> \o q \o <<EQUALS>> \o v :
        n \in AcceptQNames, v \in AcceptQValues}
      \cup {n \o <<SEMICOLON>> \o q \o <<EQUALS>> \o v :
              n \in AcceptNames, v \in AcceptFewQValues}
      \cup {<<SP>> \o n \o <<SP, SEMICOLON, HT, 81, SP, EQUALS, SP>> \o v
              \o <<SP>> : n \in AcceptNames, v \in AcceptFewQValues}
      \cup {n \o <<SEMICOLON>> \o q \o v :
              n \in AcceptNames, v \in AcceptFewQValues}
      \cup {n \o <<SEMICOLON, LetterX, EQUALS>> \o v :
              n \in AcceptNames, v \in AcceptFewQValues}
      \cup {n \o <<SEMICOLON>> \o q \o <<EQUALS, DQUOTE>> \o v \o <<DQUOTE>> :
              n \in {gzip}, v \in AcceptFewQValues}
AcceptOtherEntries ==
    {<<SP>> \o identity, x_gzip,
     gzip \o <<SEMICOLON>> \o q \o <<EQUALS, Digit0>>}
AcceptPriorSets == {{}, {<<98, 114>>}}

RECURSIVE JoinEntries(_)
JoinEntries(es) ==
    IF es = <<>> THEN <<>>
    ELSE IF Len(es) = 1 THEN es[1]
    ELSE es[1] \o <<COMMA>> \o JoinEntries(Tail(es))

InitAcceptEncoding ==
    /\ \/ \E os \in SeqsUpTo(AcceptOtherEntries, MaxAcceptOthers),
             e \in AcceptEntriesWithQ \cup AcceptNames,
             first \in BOOLEAN, a \in AcceptPriorSets :
             aen = [pc |-> "start",
                    accept_encoding |->
                        JoinEntries(IF first THEN <<e>> \o os
                                    ELSE os \o <<e>>),
                    allowed0 |-> a, allowed_encodings |-> a, ret |-> FALSE]
       \/ \E s \in SeqsUpTo({COMMA, SP}, MaxAcceptOthers + 1),
             a \in AcceptPriorSets :
             aen = [pc |-> "start", accept_encoding |-> s,
                    allowed0 |-> a, allowed_encodings |-> a, ret |-> FALSE]
    /\ asm = Idle /\ hdr = Idle /\ nvp = Idle /\ rng = Idle /\ crg = Idle
    /\ quo = Idle /\ unq = Idle /\ loc = Idle /\ cty = Idle /\ lng = Idle
    /\ cnv = Idle

\* The call; allowed0 keeps the set as the caller passed it.
ParseAcceptEncodingCall ==
    /\ aen.pc = "start"
    /\ aen' = [aen EXCEPT
                 !.pc = "done",
                 !.ret = ParseAcceptEncoding(aen.accept_encoding,
                                             aen.allowed_encodings).ret,
                 !.allowed_encodings =
                     ParseAcceptEncoding(aen.accept_encoding,
                                         aen.allowed_encodings)
                       .allowed_encodings]
    /\ UNCHANGED <<asm, hdr, nvp, rng, crg, quo, unq, loc, cty, lng, cnv>>

\* while (encoding_tokenizer.GetNext()) over content_encoding.
RECURSIVE ParseContentEncodingLoop(_, _, _)
ParseContentEncodingLoop(content_encoding, token_end, used_encodings) ==
    IF ~QuickGetNext(content_encoding, token_end, {COMMA}).found
    THEN [ret |-> TRUE, used_encodings |-> used_encodings]
    ELSE IF FindFirstOf(
                TrimLWS(Sub(content_encoding,
                            QuickGetNext(content_encoding, token_end,
                                         {COMMA}).token_begin,
                            QuickGetNext(content_encoding, token_end,
                                         {COMMA}).token_end)),
                HTTP_LWS, 0) # npos
    THEN [ret |-> FALSE, used_encodings |-> used_encodings]
    ELSE ParseContentEncodingLoop(
             content_encoding,
             QuickGetNext(content_encoding, token_end, {COMMA}).token_end,
             used_encodings
               \cup {ToLowerASCIIString(
                         TrimLWS(Sub(content_encoding,
                                     QuickGetNext(content_encoding, token_end,
                                                  {COMMA}).token_begin,
                                     QuickGetNext(content_encoding, token_end,
                                                  {COMMA}).token_end)))})

\* HttpUtil::ParseContentEncoding: [ret, used_encodings].
ParseContentEncoding(content_encoding, used_encodings) ==
    IF FindFirstOf(content_encoding, {DQUOTE, EQUALS, SEMICOLON, STAR}, 0)
         # npos
    THEN [ret |-> FALSE, used_encodings |-> used_encodings]
    ELSE ParseContentEncodingLoop(content_encoding, 0, {})

\* The same header and set given to ParseContentEncoding.
ParseContentEncodingCall ==
    /\ aen.pc = "start"
    /\ aen' = [aen EXCEPT
                 !.pc = "content_done",
                 !.ret = ParseContentEncoding(aen.accept_encoding,
                                              aen.allowed_encodings).ret,
                 !.allowed_encodings =
                     ParseContentEncoding(aen.accept_encoding,
                                          aen.allowed_encodings)
                       .used_encodings]
    /\ UNCHANGED <<asm, hdr, nvp, rng, crg, quo, unq, loc, cty, lng, cnv>>

NextAcceptEncoding ==
    \/ ParseAcceptEncodingCall
    \/ ParseContentEncodingCall

SpecAcceptEncoding == InitAcceptEncoding /\ [][NextAcceptEncoding]_vars

\* The entries of a header: the non-empty stretches between commas, each
\* without its surrounding whitespace.
AcceptEntries(s) ==
    {TrimLWS(Sub(s, r[1], r[2])) :
        r \in {x \in ({0} \cup {i \in 1..Len(s) : s[i] = COMMA})
                       \X ({Len(s)} \cup {i - 1 : i \in {j \in 1..Len(s) :
                                                          s[j] = COMMA}}) :
                 /\ x[1] < x[2]
                 /\ \A i \in (x[1] + 1)..x[2] : s[i] # COMMA}}

HasByte(s, c) == \E i \in 1..Len(s) : s[i] = c

\* The text of s before the first c, and the text behind it.
Before(s, c) == Sub(s, 0, Min({i \in 1..Len(s) : s[i] = c}) - 1)
Behind(s, c) == Sub(s, Min({i \in 1..Len(s) : s[i] = c}), Len(s))

\* The encoding an entry names, in lower case, and its q-value; an entry
\* without a well-formed "q=" parameter has no q-value.
EntryEncoding(entry) ==
    ToLowerASCIIString(IF HasByte(entry, SEMICOLON)
                       THEN TrimLWS(Before(entry, SEMICOLON)) ELSE entry)
EntryHasQ(entry) ==
    /\ HasByte(entry, SEMICOLON)
    /\ HasByte(Behind(entry, SEMICOLON), EQUALS)
    /\ ToLowerASCIIString(TrimLWS(Before(Behind(entry, SEMICOLON), EQUALS)))
         = q
EntryQValue(entry) == TrimLWS(Behind(Behind(entry, SEMICOLON), EQUALS))

ZeroQValues ==
    {<<Digit0>>, <<Digit0, DOT, Digit0>>, <<Digit0, DOT, Digit0, Digit0>>,
     <<Digit0, DOT, Digit0, Digit0, Digit0>>}
EntryIsZero(entry) == EntryHasQ(entry) /\ EntryQValue(entry) \in ZeroQValues

\* C17: when the call returns true the set is exactly {"*"}, as it is for a
\* header whose entries all carry a zero q-value or that has no entry, or it
\* holds identity, gzip exactly when x-gzip and compress exactly when
\* x-compress; a "*" that no entry names is the only member.
C17_AcceptEncodingResult ==
    (aen.pc = "done" /\ aen.ret) =>
        /\ \/ aen.allowed_encodings = {<<STAR>>}
           \/ /\ identity \in aen.allowed_encodings
              /\ gzip \in aen.allowed_encodings
                   <=> x_gzip \in aen.allowed_encodings
              /\ compress \in aen.allowed_encodings
                   <=> x_compress \in aen.allowed_encodings
        /\ (\A e \in AcceptEntries(aen.accept_encoding) : EntryIsZero(e))
              => aen.allowed_encodings = {<<STAR>>}
        /\ (/\ <<STAR>> \in aen.allowed_encodings
            /\ \A e \in AcceptEntries(aen.accept_encoding) :
                  EntryEncoding(e) # <<STAR>>)
              => aen.allowed_encodings = {<<STAR>>}

\* A header that lists x-gzip, and gzip only with a zero q-value, gives
\* identity, gzip and x-gzip.
C17_Witness ==
    /\ aen.pc = "done" /\ aen.ret
    /\ aen.allowed_encodings = {identity, gzip, x_gzip}
    /\ \E e \in AcceptEntries(aen.accept_encoding) : EntryEncoding(e) = x_gzip
    /\ \E e \in AcceptEntries(aen.accept_encoding) :
          EntryEncoding(e) = gzip /\ EntryIsZero(e)
    /\ \A e \in AcceptEntries(aen.accept_encoding) :
          /\ EntryEncoding(e) # identity
          /\ EntryEncoding(e) = gzip => EntryIsZero(e)

\* C18: an entry with a zero q-value does not fail the call, and when the
\* call returns true an encoding whose entries all carry a zero q-value is
\* not in the set.
C18_ZeroQValueExcluded ==
    (aen.pc = "done" /\ aen.ret) =>
        \A e \in AcceptEntries(aen.accept_encoding) :
            (\A f \in AcceptEntries(aen.accept_encoding) :
                EntryEncoding(f) = EntryEncoding(e) => EntryIsZero(f))
              => EntryEncoding(e) \notin aen.allowed_encodings

\* "0." followed by one to three digits.
IsZeroPointDigits(v) ==
    /\ Len(v) >= 3 /\ Len(v) <= 5
    /\ v[1] = Digit0 /\ v[2] = DOT
    /\ \A i \in 3..Len(v) : IsAsciiDigit(v[i])

\* The grammar of q-values with "1.000" followed by any digits.
QValueOneThenDigits(v) ==
    \/ v = <<Digit1>>
    \/ /\ Len(v) >= 5 /\ SubSeq(v, 1, 5) = one_point_zero
       /\ \A i \in 6..Len(v) : IsAsciiDigit(v[i])
    \/ v = <<Digit0>>
    \/ IsZeroPointDigits(v)

\* The grammar of q-values with the beginnings of "1.000".
QValueOnePrefix(v) ==
    \/ v \in {SubSeq(one_point_zero, 1, n) : n \in 1..5}
    \/ v = <<Digit0>>
    \/ IsZeroPointDigits(v)

\* An entry the loop takes: a bare encoding without whitespace in it, or an
\* encoding without whitespace in it and the parameter q with a q-value of
\* the grammar G.
EntryAccepted(entry, G(_)) ==
    IF ~HasByte(entry, SEMICOLON)
    THEN ~HasByte(entry, SP) /\ ~HasByte(entry, HT)
    ELSE /\ ~HasByte(TrimLWS(Before(entry, SEMICOLON)), SP)
         /\ ~HasByte(TrimLWS(Before(entry, SEMICOLON)), HT)
         /\ EntryHasQ(entry)
         /\ G(EntryQValue(entry))

\* C19 as stated: the call returns true exactly when every entry is taken
\* under the grammar '1', "1.000" followed by any digits, '0', or "0."
\* followed by one to three digits.
C19_QValueGrammar ==
    aen.pc = "done" =>
        (aen.ret <=>
            /\ ~HasByte(aen.accept_encoding, DQUOTE)
            /\ \A e \in AcceptEntries(aen.accept_encoding) :
                  EntryAccepted(e, QValueOneThenDigits))

\* C19: the call returns true exactly when the header has no quote and
\* every entry is taken under the grammar "1", "1.", "1.0", "1.00",
\* "1.000", '0', or "0." followed by one to three digits; a parameter name
\* other than q, a missing '=' and an empty value make it return false.
C19_QValueGrammarPrefix ==
    aen.pc = "done" =>
        (aen.ret <=>
            /\ ~HasByte(aen.accept_encoding, DQUOTE)
            /\ \A e \in AcceptEntries(aen.accept_encoding) :
                  EntryAccepted(e, QValueOnePrefix))

\* The q-value "1.0" is taken.
C19_Witness ==
    /\ aen.pc = "done" /\ aen.ret
    /\ \E e \in AcceptEntries(aen.accept_encoding) :
          /\ EntryHasQ(e)
          /\ EntryQValue(e) = <<Digit1, DOT, Digit0>>
          /\ EntryEncoding(e) \in aen.allowed_encodings

(***************************************************************************)
(* HttpUtil::ExpandLanguageList with AcceptLanguageBuilder and             *)
(* GetBaseLanguageCode.                                                    *)
(***************************************************************************)
\* gurl_base::kWhitespaceASCII.
kWhitespaceASCII == {HT, LF, 11, 12, CR, SP}

RECURSIVE SkipWhitespaceForward(_, _, _)
SkipWhitespaceForward(s, b, e) ==
    IF b < e /\ s[b + 1] \in kWhitespaceASCII
    THEN SkipWhitespaceForward(s, b + 1, e) ELSE b

RECURSIVE SkipWhitespaceBackward(_, _, _)
SkipWhitespaceBackward(s, b, e) ==
    IF b < e /\ s[e] \in kWhitespaceASCII
    THEN SkipWhitespaceBackward(s, b, e - 1) ELSE e

\* gurl_base::TrimWhitespaceASCII(s, TRIM_ALL).
TrimWhitespaceASCII(s) ==
    Sub(s, SkipWhitespaceForward(s, 0, Len(s)),
        SkipWhitespaceBackward(s, SkipWhitespaceForward(s, 0, Len(s)),
                               Len(s)))

\* The pieces of s from offset start on, cut at every separator and trimmed.
RECURSIVE SplitPieces(_, _, _)
SplitPieces(s, separator, start) ==
    IF FindFirstOf(s, {separator}, start) = npos
    THEN <<TrimWhitespaceASCII(Sub(s, start, Len(s)))>>
    ELSE <<TrimWhitespaceASCII(
               Sub(s, start, FindFirstOf(s, {separator}, start)))>>
           \o SplitPieces(s, separator,
                          FindFirstOf(s, {separator}, start) + 1)

\* gurl_base::SplitString(input, separator, TRIM_WHITESPACE, SPLIT_WANT_ALL):
\* an empty input has no pieces.
SplitString(input, separator) ==
    IF input = <<>> THEN <<>> ELSE SplitPieces(input, separator, 0)

GetBaseLanguageCode(language_code) ==
    IF SplitString(language_code, MINUS) = <<>> THEN <<>>
    ELSE SplitString(language_code, MINUS)[1]

\* AcceptLanguageBuilder::AddLanguageCode on a builder [str_, seen_].
AddLanguageCode(builder, language) ==
    IF language \in builder.seen_ THEN builder
    ELSE [str_ |-> IF builder.str_ = <<>> THEN language
                   ELSE builder.str_ \o <<COMMA>> \o language,
          seen_ |-> builder.seen_ \cup {language}]

\* A loop body that adds the base language behind every language.
AddBaseLanguageAlways(languages, i, builder) ==
    AddLanguageCode(builder, GetBaseLanguageCode(languages[i]))

\* The look-ahead: the base language is added behind languages[i] (counted
\* from 1) when that is the last one or the next one has another base.
AddBaseLanguage(languages, i, builder) ==
    IF i + 1 > Len(languages)
       \/ GetBaseLanguageCode(languages[i + 1])
            # GetBaseLanguageCode(languages[i])
    THEN AddLanguageCode(builder, GetBaseLanguageCode(languages[i]))
    ELSE builder

RECURSIVE ExpandLanguageLoop(_, _, _)
ExpandLanguageLoop(languages, i, builder) ==
    IF i > Len(languages) THEN builder.str_
    ELSE ExpandLanguageLoop(
             languages, i + 1,
             AddBaseLanguage(languages, i,
                             AddLanguageCode(builder, languages[i])))

ExpandLanguageList(language_prefs) ==
    IF SplitString(language_prefs, COMMA) = <<>> THEN <<>>
    ELSE ExpandLanguageLoop(SplitString(language_prefs, COMMA), 1,
                            [str_ |-> <<>>, seen_ |-> {}])

\* Bounds and inputs of the specification: at most MaxLanguages entries
\* joined by ','.  No language holds a ';' or a ' ' (the checks at the head
\* of AddLanguageCode).
MaxLanguages == 3
LowerB == LowerA + 1
en == <<101, 110>>
en_US == en \o <<MINUS, 85, 83>>
en_GB == en \o <<MINUS, 71, 66>>
LanguageEntries ==
    {en_US, en_GB, <<LowerA>>, <<LowerB>>, <<LowerA, MINUS, LowerA>>,
     <<LowerA, MINUS, LowerB>>, <<LowerB, MINUS, LowerA>>,
     <<SP, LowerB, MINUS, LowerB, SP>>, <<LowerA, LowerA>>,
     <<MINUS, LowerA>>, <<LowerA, MINUS>>, <<>>}
InitLanguage ==
    /\ \E es \in SeqsUpTo(LanguageEntries, MaxLanguages) :
          lng = [pc |-> "start", language_prefs |-> JoinEntries(es),
                 result |-> <<>>]
    /\ asm = Idle /\ hdr = Idle /\ nvp = Idle /\ rng = Idle /\ crg = Idle
    /\ quo = Idle /\ unq = Idle /\ loc = Idle /\ cty = Idle /\ aen = Idle
    /\ cnv = Idle

ExpandLanguageListCall ==
    /\ lng.pc = "start"
    /\ lng' = [lng EXCEPT !.pc = "expanded",
                          !.result = ExpandLanguageList(lng.language_prefs)]
    /\ UNCHANGED <<asm, hdr, nvp, rng, crg, quo, unq, loc, cty, aen, cnv>>

NextLanguage == ExpandLanguageListCall

SpecLanguage == InitLanguage /\ [][NextLanguage]_vars

\* The languages a list names: the stretches between its commas, without
\* the whitespace around them; the empty list names none.
ListedLanguages(s) ==
    IF s = <<>> THEN <<>>
    ELSE [k \in 1..(Count(s, COMMA) + 1) |->
            TrimWhitespaceASCII(
                Sub(s,
                    IF k = 1 THEN 0
                    ELSE CHOOSE i \in 1..Len(s) :
                           s[i] = COMMA /\ Count(SubSeq(s, 1, i), COMMA)
                                             = k - 1,
                    IF k = Count(s, COMMA) + 1 THEN Len(s)
                    ELSE (CHOOSE i \in 1..Len(s) :
                            s[i] = COMMA /\ Count(SubSeq(s, 1, i), COMMA) = k)
                         - 1))]

\* The base subtag: the text before the first '-'.
BaseSubtag(l) == IF HasByte(l, MINUS) THEN Before(l, MINUS) ELSE l

\* Every language followed, where the next language has another base
\* subtag or there is none, by its base subtag.
RECURSIVE WithBases(_, _)
WithBases(ls, i) ==
    IF i > Len(ls) THEN <<>>
    ELSE <<ls[i]>>
           \o (IF i = Len(ls) \/ BaseSubtag(ls[i + 1]) # BaseSubtag(ls[i])
               THEN <<BaseSubtag(ls[i])>> ELSE <<>>)
           \o WithBases(ls, i + 1)

\* es without the entries that stand earlier in it.
FirstSeen(es) ==
    LET keep == {i \in 1..Len(es) : \A j \in 1..(i - 1) : es[j] # es[i]}
    IN  [k \in 1..Cardinality(keep) |->
            es[CHOOSE i \in keep :
                 Cardinality({j \in keep : j <= i}) = k]]

\* C20: the result is the list of every language in input order, each
\* followed by its base subtag where the next language has another base
\* subtag or there is none, without the entries that stand earlier in it.
C20_ExpandLanguageList ==
    lng.pc = "expanded" =>
        lng.result
          = JoinEntries(FirstSeen(WithBases(
                ListedLanguages(lng.language_prefs), 1)))

\* The place of entry e in the list es (counted from 1), 0 when absent.
PlaceOf(es, e) ==
    IF \E i \in 1..Len(es) : es[i] = e
    THEN Min({i \in 1..Len(es) : es[i] = e}) ELSE 0

\* Two neighbours in the list that share a base subtag which is neither of
\* them and is not empty.
SharesBaseWithNext(ls, i) ==
    /\ i + 1 <= Len(ls)
    /\ BaseSubtag(ls[i]) = BaseSubtag(ls[i + 1])
    /\ BaseSubtag(ls[i]) # <<>>
    /\ ls[i] # ls[i + 1]
    /\ ls[i] # BaseSubtag(ls[i]) /\ ls[i + 1] # BaseSubtag(ls[i])

\* C21 as stated: where two neighbours share a base subtag, the result
\* holds the base once and between them; "en-US,en-GB" gives
\* "en-US,en,en-GB".
C21_BaseBetweenNeighbours ==
    lng.pc = "expanded" =>
        /\ \A i \in 1..Len(ListedLanguages(lng.language_prefs)) :
              SharesBaseWithNext(ListedLanguages(lng.language_prefs), i) =>
                /\ Cardinality(
                       {k \in 1..Len(ListedLanguages(lng.result)) :
                          ListedLanguages(lng.result)[k]
                            = BaseSubtag(
                                  ListedLanguages(lng.language_prefs)[i])})
                     = 1
                /\ PlaceOf(ListedLanguages(lng.result),
                           ListedLanguages(lng.language_prefs)[i])
                     < PlaceOf(ListedLanguages(lng.result),
                               BaseSubtag(
                                   ListedLanguages(lng.language_prefs)[i]))
                /\ PlaceOf(ListedLanguages(lng.result),
                           BaseSubtag(
                               ListedLanguages(lng.language_prefs)[i]))
                     < PlaceOf(ListedLanguages(lng.result),
                               ListedLanguages(lng.language_prefs)[i + 1])
        /\ lng.language_prefs = en_US \o <<COMMA>> \o en_GB =>
              lng.result = en_US \o <<COMMA>> \o en \o <<COMMA>> \o en_GB

\* Neither ls[i] nor ls[i + 1] stands earlier in the list.
FirstListedHere(ls, i) ==
    \A j \in 1..(i - 1) : ls[j] # ls[i] /\ ls[j] # ls[i + 1]

\* C21: where two neighbours share a base subtag, the result holds the base
\* once and, when neither of them was listed before, the second directly
\* behind the first, so the base is not between them; "en-US,en-GB" gives
\* "en-US,en-GB,en".
C21_BaseBehindNeighbours ==
    lng.pc = "expanded" =>
        /\ \A i \in 1..Len(ListedLanguages(lng.language_prefs)) :
              SharesBaseWithNext(ListedLanguages(lng.language_prefs), i) =>
                /\ Cardinality(
                       {k \in 1..Len(ListedLanguages(lng.result)) :
                          ListedLanguages(lng.result)[k]
                            = BaseSubtag(
                                  ListedLanguages(lng.language_prefs)[i])})
                     = 1
                /\ FirstListedHere(ListedLanguages(lng.language_prefs), i)
                     => PlaceOf(ListedLanguages(lng.result),
                                ListedLanguages(lng.language_prefs)[i + 1])
                          = PlaceOf(ListedLanguages(lng.result),
                                    ListedLanguages(lng.language_prefs)[i])
                              + 1
        /\ lng.language_prefs = en_US \o <<COMMA>> \o en_GB =>
              lng.result = en_US \o <<COMMA>> \o en_GB \o <<COMMA>> \o en

\* "en-US,en-GB" has been expanded.
C21_Witness ==
    /\ lng.pc = "expanded"
    /\ lng.language_prefs = en_US \o <<COMMA>> \o en_GB
    /\ lng.result = en_US \o <<COMMA>> \o en_GB \o <<COMMA>> \o en

(***************************************************************************)
(* HttpUtil::GenerateAcceptLanguageHeader, one action for each pass of its *)
(* loop.                                                                   *)
(***************************************************************************)
kQvalueDecrement10 == 1

\* The decimal digits of n, as "%d" writes them.
RECURSIVE FormatDecimal(_)
FormatDecimal(n) ==
    IF n < 10 THEN <<Digit0 + n>>
    ELSE FormatDecimal(n \div 10) \o <<Digit0 + (n % 10)>>

\* ",%s;q=0.%d".
FormatLanguageWithQ(language, qvalue10) ==
    <<COMMA>> \o language \o <<SEMICOLON>> \o q \o <<EQUALS, Digit0, DOT>>
      \o FormatDecimal(qvalue10)

\* A decrement without the floor.
QvalueAfterNoFloor(qvalue10) ==
    IF qvalue10 >= kQvalueDecrement10 THEN qvalue10 - kQvalueDecrement10
    ELSE qvalue10

\* if (qvalue10 > kQvalueDecrement10) qvalue10 -= kQvalueDecrement10;
QvalueAfter(qvalue10) ==
    IF qvalue10 > kQvalueDecrement10 THEN qvalue10 - kQvalueDecrement10
    ELSE qvalue10

\* Bounds and inputs of the specification: a list of at most
\* MaxAcceptLanguages entries joined by ','; entry i is a language of its
\* own or empty.
MaxAcceptLanguages == 12
AcceptLanguageAt(i) == <<LowerA + (i - 1)>>

InitAcceptLanguage ==
    /\ \E n \in 0..MaxAcceptLanguages :
          \E present \in [1..n -> BOOLEAN] :
             lng = [pc |-> "loop",
                    raw_language_list |->
                        JoinEntries([i \in 1..n |->
                                       IF present[i] THEN AcceptLanguageAt(i)
                                       ELSE <<>>]),
                    token_end |-> 0, qvalue10 |-> 10,
                    lang_list_with_q |-> <<>>, dcheck_lt |-> TRUE,
                    result |-> <<>>]
    /\ asm = Idle /\ hdr = Idle /\ nvp = Idle /\ rng = Idle /\ crg = Idle
    /\ quo = Idle /\ unq = Idle /\ loc = Idle /\ cty = Idle /\ aen = Idle
    /\ cnv = Idle

\* A pass of the loop: t.GetNext() found a token.  dcheck_lt is false once
\* the check of qvalue10 < 10 has failed.
GenerateAcceptLanguagePass ==
    /\ lng.pc = "loop"
    /\ QuickGetNext(lng.raw_language_list, lng.token_end, {COMMA}).found
    /\ lng' = [lng EXCEPT
                 !.token_end =
                     QuickGetNext(lng.raw_language_list, lng.token_end,
                                  {COMMA}).token_end,
                 !.lang_list_with_q =
                     IF lng.qvalue10 = 10
                     THEN Sub(lng.raw_language_list,
                              QuickGetNext(lng.raw_language_list,
                                           lng.token_end,
                                           {COMMA}).token_begin,
                              QuickGetNext(lng.raw_language_list,
                                           lng.token_end, {COMMA}).token_end)
                     ELSE lng.lang_list_with_q
                            \o FormatLanguageWithQ(
                                   Sub(lng.raw_language_list,
                                       QuickGetNext(lng.raw_language_list,
                                                    lng.token_end,
                                                    {COMMA}).token_begin,
                                       QuickGetNext(lng.raw_language_list,
                                                    lng.token_end,
                                                    {COMMA}).token_end),
                                   lng.qvalue10),
                 !.dcheck_lt = lng.dcheck_lt
                                 /\ (lng.qvalue10 = 10 \/ lng.qvalue10 < 10),
                 !.qvalue10 = QvalueAfter(lng.qvalue10)]
    /\ UNCHANGED <<asm, hdr, nvp, rng, crg, quo, unq, loc, cty, aen, cnv>>

\* t.GetNext() found no token: return lang_list_with_q.
GenerateAcceptLanguageReturn ==
    /\ lng.pc = "loop"
    /\ ~QuickGetNext(lng.raw_language_list, lng.token_end, {COMMA}).found
    /\ lng' = [lng EXCEPT !.pc = "returned",
                          !.result = lng.lang_list_with_q]
    /\ UNCHANGED <<asm, hdr, nvp, rng, crg, quo, unq, loc, cty, aen, cnv>>

NextAcceptLanguage ==
    \/ GenerateAcceptLanguagePass
    \/ GenerateAcceptLanguageReturn

SpecAcceptLanguage == InitAcceptLanguage /\ [][NextAcceptLanguage]_vars

\* The stretches of s between its commas, and those that are not empty.
RECURSIVE CommaFields(_)
CommaFields(s) ==
    IF ~HasByte(s, COMMA) THEN <<s>>
    ELSE <<Before(s, COMMA)>> \o CommaFields(Behind(s, COMMA))

NonEmptyEntries(s) == SelectSeq(CommaFields(s), LAMBDA e : e # <<>>)

\* The languages from the k-th on, each with ";q=0.d", d = max(1, 11 - k).
RECURSIVE LanguagesWithQ(_, _)
LanguagesWithQ(ls, k) ==
    IF k > Len(ls) THEN <<>>
    ELSE <<COMMA>> \o ls[k] \o <<SEMICOLON, 113, EQUALS, Digit0, DOT>>
           \o <<Digit0 + (IF 11 - k > 1 THEN 11 - k ELSE 1)>>
           \o LanguagesWithQ(ls, k + 1)

\* The header for the languages ls.
ExpectedAcceptLanguage(ls) ==
    IF ls = <<>> THEN <<>> ELSE ls[1] \o LanguagesWithQ(ls, 2)

\* C22: the first language is emitted without a q parameter and the k-th
\* with ";q=0.d", d = max(1, 11 - k); qvalue10 stays within 1..10 and never
\* increases, and the check of qvalue10 < 10 never fails.
C22_AcceptLanguageQValues ==
    /\ [](/\ lng.qvalue10 \in 1..10
          /\ lng.dcheck_lt
          /\ lng.pc = "returned" =>
                lng.result
                  = ExpectedAcceptLanguage(
                        NonEmptyEntries(lng.raw_language_list)))
    /\ [][lng'.qvalue10 <= lng.qvalue10]_vars

\* A list of twelve languages has been turned into a header: the last three
\* carry q=0.1.
C22_Witness ==
    /\ lng.pc = "returned"
    /\ Len(NonEmptyEntries(lng.raw_language_list)) = 12
    /\ lng.qvalue10 = 1
    /\ Len(lng.result) = 1 + 11 * 8
    /\ \A k \in 10..12 :
          SubSeq(lng.result, 8 * k - 12, 8 * k - 7)
            = <<SEMICOLON, 113, EQUALS, Digit0, DOT, Digit1>>

\* C23: when ParseAcceptEncoding or ParseContentEncoding returns false the
\* set is as it was before the call, or empty.
C23_FalseReturnLeavesSet ==
    (aen.pc \in {"done", "content_done"} /\ ~aen.ret) =>
        \/ aen.allowed_encodings = aen.allowed0
        \/ aen.allowed_encodings = {}

(***************************************************************************)
(* The folding of continuations by AssembleRawHeaders.                     *)
(***************************************************************************)
\* A continuable header line: not empty, with a ':', and a name that is not
\* empty and does not start with LWS.
ContinuableLine(l) ==
    /\ l # <<>>
    /\ HasByte(l, COLON)
    /\ l[1] # COLON
    /\ ~IsLWS(l[1])

StartsWithLWS(l) == l # <<>> /\ IsLWS(l[1])

\* The lines of an assembled block: the stretches between its NUL bytes.
RECURSIVE NulFields(_)
NulFields(s) ==
    IF ~HasByte(s, NUL) THEN <<s>>
    ELSE <<Before(s, NUL)>> \o NulFields(Behind(s, NUL))

\* Segment j follows a continuable segment, or continuations of one.
FollowsContinuable(segs, j) ==
    \E i \in 1..(j - 1) :
        /\ ContinuableLine(segs[i])
        /\ \A m \in (i + 1)..(j - 1) : StartsWithLWS(segs[m])

\* l without its leading run of LWS.
RECURSIVE WithoutLeadingLWS(_)
WithoutLeadingLWS(l) ==
    IF StartsWithLWS(l) THEN WithoutLeadingLWS(Tail(l)) ELSE l

\* The segments from the j-th on, each folded into the line before it or
\* begun as a line of its own.
RECURSIVE FoldedFrom(_, _)
FoldedFrom(segs, j) ==
    IF j > Len(segs) THEN <<>>
    ELSE (IF StartsWithLWS(segs[j]) /\ FollowsContinuable(segs, j)
          THEN <<SP>> \o WithoutLeadingLWS(segs[j])
          ELSE <<LF>> \o segs[j])
           \o FoldedFrom(segs, j + 1)

\* The status line of the assembled input.
StatusLineOf(a) ==
    Sub(a.input,
        IF a.status_begin_offset = npos THEN 0 ELSE a.status_begin_offset,
        Len(a.input) - Len(a.rest))

\* Bounds and inputs of the specification of the folding: a status line
\* and at most MaxFoldSegments segments, each behind a line break.
MaxFoldSegments == 3
FoldStatusLines == {<<>>, http \o <<COLON>>}
FoldBreaks == {<<LF>>, <<CR, LF>>}
FoldSegments ==
    {<<LetterA, COLON>>, <<LetterA>>, <<SP, LetterA>>, <<SP, HT>>,
     <<HT, SP, LetterA, COLON>>, <<COLON, LetterA>>, <<NUL, SP, LetterA>>,
     <<LetterA, COLON, NUL>>}

InitFold ==
    /\ \E st \in FoldStatusLines, br \in FoldBreaks,
          segs \in SeqsUpTo(FoldSegments, MaxFoldSegments) :
          asm = [pc |-> "start",
                 input |-> st \o Concat([i \in 1..Len(segs) |->
                                            br \o segs[i]]),
                 out |-> <<>>, raw_headers |-> <<>>, rest |-> <<>>,
                 lines |-> 0, status_begin_offset |-> npos]
    /\ hdr = Idle /\ nvp = Idle /\ rng = Idle /\ crg = Idle /\ quo = Idle
    /\ unq = Idle /\ loc = Idle /\ cty = Idle /\ aen = Idle /\ lng = Idle
    /\ cnv = Idle

SpecFold == InitFold /\ [][NextAssemble]_vars

\* C24: in the output no line that begins with LWS directly follows a
\* continuable header line; every segment that starts with LWS and follows
\* a continuable segment, or continuations of one, is appended as one space
\* and the segment without its leading LWS, every other segment begins a
\* line, and the status line is not continued.
C24_ContinuationsFolded ==
    asm.pc = "done" =>
        /\ \A k \in 2..(Len(NulFields(asm.out)) - 1) :
              ContinuableLine(NulFields(asm.out)[k])
                => ~StartsWithLWS(NulFields(asm.out)[k + 1])
        /\ asm.out
             = Replace(Erase(StatusLineOf(asm)
                               \o FoldedFrom(Segments(asm.rest, 0), 1)
                               \o <<LF, LF>>, NUL), LF, NUL)

(***************************************************************************)
(* The boundary argument of ParseContentType.                              *)
(***************************************************************************)
\* What the parameter loop finds in s when a boundary is asked for.
ParsedParameters(s) ==
    ParseParameters(s, FindFirstOf(s, {SEMICOLON}, TypeEnd(s)),
                    [charset_value |-> <<>>, type_has_charset |-> FALSE,
                     type_has_boundary |-> FALSE,
                     boundary_requested |-> TRUE,
                     boundary |-> <<>>])

\* s holds the word "boundary" somewhere, in either case.
MentionsBoundary(s) ==
    \E i \in 1..(Len(s) - Len(boundary) + 1) :
        ToLowerASCIIString(SubSeq(s, i, i + Len(boundary) - 1)) = boundary

\* The value is one the call rejects.
IsRejected(s) ==
    s = <<>> \/ s = <<STAR, SLASH, STAR>> \/ ~HasByte(s, SLASH)

\* C25: with a boundary argument and a boundary parameter with a value in
\* the input, *boundary is the first such value after the call, also when
\* the call rejects the input; a rejected input leaves mime_type, charset
\* and had_charset as they were; without a boundary parameter, and without
\* a boundary argument, the boundary is as it was.
C25_BoundaryWrittenBeforeValidation ==
    cty.pc = "done" =>
        /\ (cty.out0.boundary_requested
            /\ ParsedParameters(cty.content_type_str).type_has_boundary)
              => cty.out.boundary
                   = ParsedParameters(cty.content_type_str).boundary
        /\ IsRejected(cty.content_type_str)
              => /\ cty.out.mime_type = cty.out0.mime_type
                 /\ cty.out.charset = cty.out0.charset
                 /\ cty.out.had_charset = cty.out0.had_charset
        /\ (\/ ~MentionsBoundary(cty.content_type_str)
            \/ ~ParsedParameters(cty.content_type_str).type_has_boundary
            \/ ~cty.out0.boundary_requested)
              => cty.out.boundary = cty.out0.boundary
        /\ cty.out.boundary_requested = cty.out0.boundary_requested

\* A value without '/' whose second boundary parameter differs from the
\* first has been rejected, and the boundary is the first one's value.
C25_Witness ==
    /\ cty.pc = "done"
    /\ IsRejected(cty.content_type_str)
    /\ cty.out0.boundary_requested
    /\ cty.content_type_str
         = <<LowerA, SEMICOLON>> \o boundary \o <<EQUALS, LowerA, SEMICOLON>>
             \o boundary
             \o <<EQUALS, SP, DQUOTE, BACKSLASH, DQUOTE, SEMICOLON, DQUOTE>>
    /\ cty.out0.boundary = <<LetterX>>
    /\ cty.out.boundary = <<LowerA>>
    /\ cty.out0.mime_type # <<>> /\ cty.out.mime_type = cty.out0.mime_type
    /\ cty.out0.charset # <<>> /\ cty.out.charset = cty.out0.charset
    /\ cty.out.had_charset = cty.out0.had_charset

====
